---- MODULE Spec2Model ----
(***************************************************************************)
(* Library attendance tracker (ashutoshvm-off/library-attendance).         *)
(*                                                                         *)
(* The model covers the two places where the repository keeps state:       *)
(*   - the browser's localStorage (one entry per collection, the sync      *)
(*     queue and the last-sync time) and the remote document store;        *)
(*   - the three services that read and write them: AppwriteService        *)
(*     (lib/appwrite.ts, held in src/lib/config-checker.ts), the           *)
(*     EnhancedAppwriteService write path (src/lib/appwrite-enhanced.ts)   *)
(*     and the OfflineSyncService queue (src/lib/offline-sync.ts),         *)
(*     together with the Dashboard's scan handler, the admin panel's       *)
(*     add-student handler and the AuthProvider's login and logout, which  *)
(*     call them.                                                          *)
(*                                                                         *)
(* A remote call either answers or throws; which one is an input of the    *)
(* action that makes the call (the parameter o, one truth value per call   *)
(* the handler can make, in program order).                                *)
(*                                                                         *)
(* Specifications:                                                         *)
(*   SpecScan   the Dashboard and the admin panel on the AppwriteService;  *)
(*   Spec       the above, the write path, the sync pass and its triggers; *)
(*   SpecQueue  SpecScan with the queue driven through its public method;  *)
(*   SpecFair   the attendance write path under weak fairness of the pass, *)
(*              the timer and the browser's "online" event.                *)
(*   SpecFairScan  SpecFair with the scans of the Dashboard;               *)
(*   SpecRoster the ways a roster entry is made, the import included;      *)
(*   SpecReload the write path and the queue with page reloads;            *)
(*   SpecRead   the read calls of both services;                           *)
(*   SpecScanner  the scanner tab of the Dashboard, event by event;        *)
(*   SpecAuth   the login form, logout and the staff accounts;             *)
(*   SpecTeardown  SpecQueue with the teardown of the queue's service;     *)
(*   SpecPass   the attendance write path under weak fairness of the pass  *)
(*              and the timer, with remote calls that answer or throw.     *)
(***************************************************************************)
EXTENDS Integers, Sequences, FiniteSets, TLC

\* ------------------------------------------------------------------ bounds

\* Client calls (scans, admin and write-path calls) in one behaviour.
MaxOps == 3

\* Rows of one imported file.
MaxRows == 2

\* Lookups followed within one createStudent / getStudentByAdmissionId call of
\* the write path.
MaxDepth == 2

\* ----------------------------------------------------------------- domains

\* Admission IDs as they are typed or scanned.
RawIds == {"S1", "s1"}

\* String.prototype.toUpperCase / toLowerCase on the IDs of the model.
ToUpper(s) == IF s = "s1" THEN "S1" ELSE IF s = "admin" THEN "ADMIN" ELSE s
ToLower(s) == IF s = "S1" THEN "s1" ELSE s

\* format(new Date(), "yyyy-MM-dd"): the model runs within one calendar day.
Today == "today"

\* Names an administrator types for a roster entry.
AdminNames == {"Alice"}

\* The placeholder name of an auto-registered subject.
PlaceholderName(admissionId) == "Student " \o admissionId

\* String.prototype.localeCompare on the names of the model, as a rank.
NameRank(name) ==
  CASE name = "Alice" -> 1
    [] name = "Student s1" -> 2
    [] name = "Student S1" -> 3
    [] OTHER -> 4

\* A name an administrator changes a roster entry to.
NewNames == {"Zed"}

Collections == {"records", "students", "login-records"}

\* The collections of the remote store: the above and the staff accounts.
RemoteCollections == Collections \cup {"staff"}

\* Identifiers: `local-<time>-<random>` and the server's ID.unique().
LocalId(n) == <<"local", n>>
ServerId(n) == <<"srv", n>>
NoId == <<"none", 0>>
\* id.startsWith("local-")
IsLocal(id) == id[1] = "local"

\* The calls a handler can make to the remote store, in program order: a scan
\* makes up to five, the admin panel's add two, a queued item three.
Outcomes == [1..5 -> BOOLEAN]
AddOutcomes == [1..2 -> BOOLEAN]
SyncOutcomes == [1..3 -> BOOLEAN]

\* maxRetries
MaxRetries == 3

\* Staff IDs of the login records.
StaffIds == {"ADMIN"}

VARIABLES
  local,          \* localStorage["library-<collection>"]: a JSON array each
  remote,         \* the remote store's collections
  storedQueue,    \* localStorage["library-sync-queue"]
  lastSync,       \* localStorage["library-last-sync"] (0: not set)
  navOnline,      \* navigator.onLine
  isConfigured,   \* AppwriteService.isConfigured
  enhConfigured,  \* EnhancedAppwriteService.isConfigured
  syncQueue,      \* OfflineSyncService.syncQueue
  isOnline,       \* OfflineSyncService.isOnline
  isSyncing,      \* OfflineSyncService.isSyncing
  pass,           \* the locals of the attemptSync call in flight
  pending,        \* the write-path call suspended at a remote call, if any
  importJob,      \* the locals of the executeImport call in flight, if any
  nextId,         \* source of fresh identifiers
  clock,          \* Date.now(), one tick per client call
  scanLog,        \* per admission ID, what each scan did, in order
  ret,            \* what the last client call returned or threw
  desk,           \* the Dashboard: barcode field, isScanning, scans in flight
  syncInterval,   \* OfflineSyncService.syncInterval is armed
  auth,           \* AuthProvider: isAuthenticated, staff, currentSession
  localStaff,     \* localStorage["library-staff"]
  localSession    \* localStorage["library-session"]

vars == <<local, remote, storedQueue, lastSync, navOnline, isConfigured,
          enhConfigured, syncQueue, isOnline, isSyncing, pass, pending,
          importJob, nextId, clock, scanLog, ret, desk, syncInterval, auth,
          localStaff, localSession>>

\* The state of the pages around the services: the Dashboard's scanner, the
\* timer of the queue, and the login session with its two storage entries.
pageState == <<desk, syncInterval, auth, localStaff, localSession>>

\* ------------------------------------------------------------ array helpers

\* { ...a, ...b }
Merge(a, b) ==
  [f \in (DOMAIN a) \cup (DOMAIN b) |-> IF f \in DOMAIN b THEN b[f] ELSE a[f]]

\* const { $id, ...rest } = a
WithoutId(a) == [f \in (DOMAIN a) \ {"id"} |-> a[f]]

\* Array.prototype.findIndex, 1-based and 0 when nothing matches, over the
\* positions that pass the test.
First(S) == IF S = {} THEN 0 ELSE CHOOSE i \in S : \A j \in S : i <= j

\* findIndex((r) => r.$id === id)
IndexOfId(seq, id) == First({i \in 1..Len(seq) : seq[i].id = id})

\* find((s) => s.admissionId === admissionId)
IndexOfAdmissionId(seq, admissionId) ==
  First({i \in 1..Len(seq) : seq[i].admissionId = admissionId})

\* The sort key of an entity of a collection: checkInTime of a record and
\* loginTime of a login record (latest first), the name of a roster entry.
SortKey(e, key) ==
  CASE key = "records" -> e.checkInTime
    [] key = "login-records" -> e.loginTime
    [] key = "students" -> 0 - NameRank(e.name)

\* Array.prototype.sort (stable) with the comparator of the collection.
SortDescBy(seq, key) ==
  LET n == Len(seq)
      Pos(i) == 1 + Cardinality({j \in 1..n :
                   \/ SortKey(seq[j], key) > SortKey(seq[i], key)
                   \/ SortKey(seq[j], key) = SortKey(seq[i], key) /\ j < i})
  IN [p \in 1..n |-> seq[CHOOSE i \in 1..n : Pos(i) = p]]

\* A result of a service call: the stores after it, and a value or an error.
Ok(w, val) == [w |-> w, val |-> val, err |-> ""]
Err(w, msg) == [w |-> w, val |-> NoId, err |-> msg]

\* The stores and the queue as the service calls see them.
World ==
  [local |-> local, remote |-> remote, nextId |-> nextId,
   syncQueue |-> syncQueue, storedQueue |-> storedQueue,
   isSyncing |-> isSyncing, pass |-> pass]

\* The stores and the queue as a call leaves them.
Commit(w) ==
  /\ local' = w.local
  /\ remote' = w.remote
  /\ nextId' = w.nextId
  /\ syncQueue' = w.syncQueue
  /\ storedQueue' = w.storedQueue
  /\ isSyncing' = w.isSyncing
  /\ pass' = w.pass

PushLocal(w, c, e) ==
  [w EXCEPT !.local[c] = Append(@, e), !.nextId = @ + 1]
PushRemote(w, c, e) ==
  [w EXCEPT !.remote[c] = Append(@, e), !.nextId = @ + 1]

\* ------------------------------------------- AppwriteService (lib/appwrite)

\* A call to the remote store answers only while the browser is online.
Answers(ok) == navOnline /\ ok

\* `if (this.isConfigured && this.databases) { try { await remote } catch {} }`:
\* the remote branch is taken and completes.
RemoteAnswers(ok) == isConfigured /\ Answers(ok)

HasId(seq, id) == \E i \in 1..Len(seq) : seq[i].id = id

\* createRecord and createLoginRecord: the remote document, or on any failure a
\* new local entity under a temporary identifier.
Aw_create(w, c, data, ok) ==
  IF RemoteAnswers(ok)
  THEN LET e == Merge(data, [id |-> ServerId(w.nextId)])
       IN Ok(PushRemote(w, c, e), e)
  ELSE LET e == Merge([id |-> LocalId(w.nextId)], data)
       IN Ok(PushLocal(w, c, e), e)

\* updateRecord, updateStudent, updateLoginRecord: the remote document when the
\* identifier is a server one and the call answers, else the local entity.
Aw_update(w, c, id, updates, ok) ==
  IF RemoteAnswers(ok) /\ ~IsLocal(id) /\ HasId(w.remote[c], id)
  THEN LET i == IndexOfId(w.remote[c], id)
           e == Merge(w.remote[c][i], WithoutId(updates))
       IN Ok([w EXCEPT !.remote[c][i] = e], e)
  ELSE LET i == IndexOfId(w.local[c], id)
       IN IF i # 0
          THEN LET e == Merge(w.local[c][i], updates)
               IN Ok([w EXCEPT !.local[c][i] = e], e)
          ELSE Err(w, "not found")

\* deleteRecord, deleteStudent
Aw_delete(w, c, id, ok) ==
  IF RemoteAnswers(ok) /\ ~IsLocal(id) /\ HasId(w.remote[c], id)
  THEN Ok([w EXCEPT !.remote[c] = SelectSeq(@, LAMBDA e : e.id # id)], NoId)
  ELSE Ok([w EXCEPT !.local[c] = SelectSeq(@, LAMBDA e : e.id # id)], NoId)

Aw_createRecord(w, record, ok) == Aw_create(w, "records", record, ok)
Aw_updateRecord(w, id, updates, ok) == Aw_update(w, "records", id, updates, ok)
Aw_deleteRecord(w, id, ok) == Aw_delete(w, "records", id, ok)
Aw_updateStudent(w, id, updates, ok) ==
  Aw_update(w, "students", id, updates, ok)
Aw_deleteStudent(w, id, ok) == Aw_delete(w, "students", id, ok)
Aw_createLoginRecord(w, rec, ok) == Aw_create(w, "login-records", rec, ok)
Aw_updateLoginRecord(w, id, updates, ok) ==
  Aw_update(w, "login-records", id, updates, ok)

\* getRecordsByDate: the remote list ordered by checkInTime descending, else the
\* local records of that date in the same order.
Aw_getRecordsByDate(w, date, ok) ==
  IF RemoteAnswers(ok)
  THEN SortDescBy(SelectSeq(w.remote["records"], LAMBDA r : r.date = date),
                  "records")
  ELSE SortDescBy(SelectSeq(w.local["records"], LAMBDA r : r.date = date),
                  "records")

\* getStudentCurrentStatus: the most recent record of the subject today.
Aw_getStudentCurrentStatus(w, admissionId, date, ok) ==
  LET todaysRecords == Aw_getRecordsByDate(w, date, ok)
      studentRecords ==
        SortDescBy(SelectSeq(todaysRecords,
                             LAMBDA r : r.admissionId = admissionId), "records")
  IN [isCheckedIn |-> Len(studentRecords) > 0
                      /\ studentRecords[1].status = "checked-in",
      lastRecord |-> IF Len(studentRecords) > 0
                     THEN <<studentRecords[1]>> ELSE <<>>]

\* checkAdmissionIdExists: exact match remotely, case-insensitive locally.
Aw_checkAdmissionIdExists(w, admissionId, ok) ==
  IF RemoteAnswers(ok)
  THEN \E i \in 1..Len(w.remote["students"]) :
         w.remote["students"][i].admissionId = admissionId
  ELSE \E i \in 1..Len(w.local["students"]) :
         ToLower(w.local["students"][i].admissionId) = ToLower(admissionId)

\* The remote roster is set up with the unique index `admissionId_unique`:
\* createDocument is refused for an admission ID the collection holds.
RemoteTakesStudent(w, admissionId) ==
  IndexOfAdmissionId(w.remote["students"], admissionId) = 0

LocalHasStudentIgnoringCase(w, admissionId) ==
  \E i \in 1..Len(w.local["students"]) :
    ToLower(w.local["students"][i].admissionId) = ToLower(admissionId)

\* A createStudent that saves the local entity without looking at the local
\* roster again.
Aw_createStudent_unguarded(w, student, okCheck, okCreate) ==
  IF Aw_checkAdmissionIdExists(w, student.admissionId, okCheck)
  THEN Err(w, "already exists")
  ELSE IF RemoteAnswers(okCreate) /\ RemoteTakesStudent(w, student.admissionId)
  THEN LET e == Merge(student, [id |-> ServerId(w.nextId)])
       IN Ok(PushRemote(w, "students", e), e)
  ELSE LET e == Merge([id |-> LocalId(w.nextId)], student)
       IN Ok(PushLocal(w, "students", e), e)

\* createStudent: refuse a known admission ID, else the remote document, else a
\* local entity after a second, local duplicate check.
Aw_createStudent(w, student, okCheck, okCreate) ==
  IF Aw_checkAdmissionIdExists(w, student.admissionId, okCheck)
  THEN Err(w, "already exists")
  ELSE IF RemoteAnswers(okCreate) /\ RemoteTakesStudent(w, student.admissionId)
  THEN LET e == Merge(student, [id |-> ServerId(w.nextId)])
       IN Ok(PushRemote(w, "students", e), e)
  ELSE IF LocalHasStudentIgnoringCase(w, student.admissionId)
  THEN Err(w, "already exists")
  ELSE LET e == Merge([id |-> LocalId(w.nextId)], student)
       IN Ok(PushLocal(w, "students", e), e)

\* getStudentByAdmissionId: the first remote match, else the first local match,
\* else a newly created entry named "Student <id>".
Aw_getStudentByAdmissionId(w, admissionId, okList, okCheck, okCreate) ==
  LET ri == IndexOfAdmissionId(w.remote["students"], admissionId)
      li == IndexOfAdmissionId(w.local["students"], admissionId)
  IN IF RemoteAnswers(okList) /\ ri # 0 THEN Ok(w, w.remote["students"][ri])
     ELSE IF li # 0 THEN Ok(w, w.local["students"][li])
     ELSE Aw_createStudent(w, [admissionId |-> admissionId,
                               name |-> PlaceholderName(admissionId)],
                           okCheck, okCreate)

\* getAllStudents: the remote roster ordered by name, else the local one.
Aw_getAllStudents(w, ok) ==
  IF RemoteAnswers(ok)
  THEN SortDescBy(w.remote["students"], "students")
  ELSE SortDescBy(w.local["students"], "students")

\* getAllRecords and getAllLoginRecords: the remote list, latest first, else
\* the local one in the same order.
Aw_getAllRecords(w, ok) ==
  IF RemoteAnswers(ok)
  THEN SortDescBy(w.remote["records"], "records")
  ELSE SortDescBy(w.local["records"], "records")

Aw_getAllLoginRecords(w, ok) ==
  IF RemoteAnswers(ok)
  THEN SortDescBy(w.remote["login-records"], "login-records")
  ELSE SortDescBy(w.local["login-records"], "login-records")

\* ------------------------------------------------ Dashboard (scan handlers)

\* handleCheckIn: look the subject up (or register it), then open a record.
\* A thrown error is caught and shown; nothing else happens.
handleCheckIn(w, admissionId, now, o) ==
  LET sd == Aw_getStudentByAdmissionId(w, admissionId, o[2], o[3], o[4])
      newRecord == [admissionId |-> admissionId,
                    studentName |-> sd.val.name,
                    checkInTime |-> now,
                    date |-> Today,
                    status |-> "checked-in"]
  IN IF sd.err # "" THEN [w |-> sd.w, did |-> "failed"]
     ELSE [w |-> Aw_createRecord(sd.w, newRecord, o[5]).w, did |-> "open"]

\* handleCheckOut: close the given record.
handleCheckOut(w, record, now, o) ==
  LET updatedRecord == Merge(record, [checkOutTime |-> now,
                                      status |-> "checked-out"])
      up == Aw_updateRecord(w, record.id, updatedRecord, o[2])
  IN IF record.status # "checked-in" THEN [w |-> w, did |-> "failed"]
     ELSE IF up.err # "" THEN [w |-> up.w, did |-> "failed"]
     ELSE [w |-> up.w, did |-> "close"]

\* handleScan, as one call: resolve the subject's status, then close or open.
handleScan(w, barcode, now, o) ==
  LET admissionId == ToUpper(barcode)
      studentStatus == Aw_getStudentCurrentStatus(w, admissionId, Today, o[1])
  IN IF studentStatus.isCheckedIn
     THEN handleCheckOut(w, studentStatus.lastRecord[1], now, o)
     ELSE handleCheckIn(w, admissionId, now, o)

\* --------------------------------------- OfflineSyncService (the sync queue)

\* An attemptSync that does not look at isSyncing.
attemptSync_reentrant(w, online) ==
  IF ~online \/ w.syncQueue = <<>>
  THEN w
  ELSE [w EXCEPT !.isSyncing = TRUE,
                 !.pass = [items |-> w.syncQueue, idx |-> 1,
                           successfulItems |-> {}, failedItems |-> {}]]

\* attemptSync up to its first await: nothing when a pass is running, the
\* service is offline or the queue is empty; else the pass starts on a copy of
\* the queue.
attemptSync(w, online) ==
  IF w.isSyncing \/ ~online \/ w.syncQueue = <<>>
  THEN w
  ELSE [w EXCEPT !.isSyncing = TRUE,
                 !.pass = [items |-> w.syncQueue, idx |-> 1,
                           successfulItems |-> {}, failedItems |-> {}]]

\* An addToSyncQueue that does not call saveSyncQueue.
addToSyncQueue_unsaved(w, type, collection, data, localId, now) ==
  LET item == [id |-> <<"sync", w.nextId>>, type |-> type,
               collection |-> collection, data |-> data, timestamp |-> now,
               retryCount |-> 0, localId |-> localId]
      queued == Append(w.syncQueue, item)
  IN attemptSync([w EXCEPT !.syncQueue = queued,
                           !.nextId = @ + 1],
                 isOnline)

\* addToSyncQueue: append, persist, and start a pass when online.
addToSyncQueue(w, type, collection, data, localId, now) ==
  LET item == [id |-> <<"sync", w.nextId>>, type |-> type,
               collection |-> collection, data |-> data, timestamp |-> now,
               retryCount |-> 0, localId |-> localId]
      queued == Append(w.syncQueue, item)
  IN attemptSync([w EXCEPT !.syncQueue = queued,
                           !.storedQueue = queued,
                           !.nextId = @ + 1],
                 isOnline)

\* updateLocalRecordId / updateLocalStudentId: give the first local entity
\* carrying localId the identifier newId.
updateLocalId(w, c, localId, newId) ==
  LET i == IndexOfId(w.local[c], localId)
  IN IF i # 0 THEN [w EXCEPT !.local[c][i].id = newId] ELSE w

\* syncRecord
syncRecord(w, item, o) ==
  CASE item.type = "create" ->
         LET newRecord == Aw_createRecord(w, item.data, o[1])
         IN Ok(updateLocalId(newRecord.w, "records", item.localId,
                             newRecord.val.id), NoId)
    [] item.type = "update" ->
         Aw_updateRecord(w, item.data.id, item.data, o[1])
    [] item.type = "delete" ->
         Aw_deleteRecord(w, item.data.id, o[1])

\* syncStudent.  getStudentByAdmissionId returns an entry or throws, so the
\* create after the `if (existingStudent)` block is never reached.
syncStudent(w, item, o) ==
  CASE item.type = "create" ->
         LET existingStudent ==
               Aw_getStudentByAdmissionId(w, item.data.admissionId,
                                          o[1], o[2], o[3])
         IN IF existingStudent.err # ""
            THEN Err(existingStudent.w, existingStudent.err)
            ELSE Ok(updateLocalId(existingStudent.w, "students", item.localId,
                                  existingStudent.val.id), NoId)
    [] item.type = "update" ->
         Aw_updateStudent(w, item.data.id, item.data, o[1])
    [] item.type = "delete" ->
         Aw_deleteStudent(w, item.data.id, o[1])

\* syncLoginRecord: a create leaves the local identifier as it is; the switch
\* has no case for a delete.
syncLoginRecord(w, item, o) ==
  CASE item.type = "create" ->
         Ok(Aw_createLoginRecord(w, item.data, o[1]).w, NoId)
    [] item.type = "update" ->
         Aw_updateLoginRecord(w, item.data.id, item.data, o[1])
    [] OTHER -> Ok(w, NoId)

\* syncItem
syncItem(w, item, o) ==
  CASE item.collection = "records" -> syncRecord(w, item, o)
    [] item.collection = "students" -> syncStudent(w, item, o)
    [] item.collection = "login-records" -> syncLoginRecord(w, item, o)

\* item.retryCount++ : the copy made by attemptSync shares the item objects
\* with the queue, so the count moves in both.
BumpRetry(seq, id) ==
  [i \in 1..Len(seq) |->
     IF seq[i].id = id THEN [seq[i] EXCEPT !.retryCount = @ + 1] ELSE seq[i]]

\* A loop turn that counts an item as permanently failed only once its
\* retryCount exceeds maxRetries.
syncStep_exceeds(w, o) ==
  LET item == w.pass.items[w.pass.idx]
      r == syncItem(w, item, o)
      threw == r.err # ""
      items == IF threw THEN BumpRetry(w.pass.items, item.id) ELSE w.pass.items
      queue == IF threw THEN BumpRetry(r.w.syncQueue, item.id)
               ELSE r.w.syncQueue
      successfulItems == IF threw THEN w.pass.successfulItems
                         ELSE w.pass.successfulItems \cup {item.id}
      failedItems ==
        IF threw /\ items[w.pass.idx].retryCount > MaxRetries
        THEN w.pass.failedItems \cup {item.id}
        ELSE w.pass.failedItems
      kept == SelectSeq(queue, LAMBDA q : q.id \notin successfulItems
                                          /\ q.id \notin failedItems)
      last == w.pass.idx = Len(w.pass.items)
  IN [r.w EXCEPT
        !.pass = [items |-> items, idx |-> w.pass.idx + 1,
                  successfulItems |-> successfulItems,
                  failedItems |-> failedItems],
        !.syncQueue = IF last THEN kept ELSE queue,
        !.storedQueue = IF last THEN kept ELSE @,
        !.isSyncing = ~last]

\* A loop turn that leaves the loop when the item throws.
syncStep_abort(w, o) ==
  LET item == w.pass.items[w.pass.idx]
      r == syncItem(w, item, o)
      threw == r.err # ""
      items == IF threw THEN BumpRetry(w.pass.items, item.id) ELSE w.pass.items
      queue == IF threw THEN BumpRetry(r.w.syncQueue, item.id)
               ELSE r.w.syncQueue
      successfulItems == IF threw THEN w.pass.successfulItems
                         ELSE w.pass.successfulItems \cup {item.id}
      failedItems ==
        IF threw /\ items[w.pass.idx].retryCount >= MaxRetries
        THEN w.pass.failedItems \cup {item.id}
        ELSE w.pass.failedItems
      kept == SelectSeq(queue, LAMBDA q : q.id \notin successfulItems
                                          /\ q.id \notin failedItems)
      last == threw \/ w.pass.idx = Len(w.pass.items)
  IN [r.w EXCEPT
        !.pass = [items |-> items, idx |-> w.pass.idx + 1,
                  successfulItems |-> successfulItems,
                  failedItems |-> failedItems],
        !.syncQueue = IF last THEN kept ELSE queue,
        !.storedQueue = IF last THEN kept ELSE @,
        !.isSyncing = ~last]

\* A loop turn that lets the error of the last item escape attemptSync, which
\* then ends before it clears isSyncing.
syncStep_escapes(w, o) ==
  LET item == w.pass.items[w.pass.idx]
      r == syncItem(w, item, o)
      threw == r.err # ""
      items == IF threw THEN BumpRetry(w.pass.items, item.id) ELSE w.pass.items
      queue == IF threw THEN BumpRetry(r.w.syncQueue, item.id)
               ELSE r.w.syncQueue
      successfulItems == IF threw THEN w.pass.successfulItems
                         ELSE w.pass.successfulItems \cup {item.id}
      failedItems ==
        IF threw /\ items[w.pass.idx].retryCount >= MaxRetries
        THEN w.pass.failedItems \cup {item.id}
        ELSE w.pass.failedItems
      kept == SelectSeq(queue, LAMBDA q : q.id \notin successfulItems
                                          /\ q.id \notin failedItems)
      last == w.pass.idx = Len(w.pass.items)
  IN [r.w EXCEPT
        !.pass = [items |-> items, idx |-> w.pass.idx + 1,
                  successfulItems |-> successfulItems,
                  failedItems |-> failedItems],
        !.syncQueue = IF last /\ ~threw THEN kept ELSE queue,
        !.storedQueue = IF last /\ ~threw THEN kept ELSE @,
        !.isSyncing = ~last \/ threw]

\* A loop turn whose pass ends by filtering its own copy of the queue, not
\* the queue.
syncStep_snapshot(w, o) ==
  LET item == w.pass.items[w.pass.idx]
      r == syncItem(w, item, o)
      threw == r.err # ""
      items == IF threw THEN BumpRetry(w.pass.items, item.id) ELSE w.pass.items
      queue == IF threw THEN BumpRetry(r.w.syncQueue, item.id)
               ELSE r.w.syncQueue
      successfulItems == IF threw THEN w.pass.successfulItems
                         ELSE w.pass.successfulItems \cup {item.id}
      failedItems ==
        IF threw /\ items[w.pass.idx].retryCount >= MaxRetries
        THEN w.pass.failedItems \cup {item.id}
        ELSE w.pass.failedItems
      kept == SelectSeq(items, LAMBDA q : q.id \notin successfulItems
                                          /\ q.id \notin failedItems)
      last == w.pass.idx = Len(w.pass.items)
  IN [r.w EXCEPT
        !.pass = [items |-> items, idx |-> w.pass.idx + 1,
                  successfulItems |-> successfulItems,
                  failedItems |-> failedItems],
        !.syncQueue = IF last THEN kept ELSE queue,
        !.storedQueue = IF last THEN kept ELSE @,
        !.isSyncing = ~last]

\* One turn of the loop of attemptSync on the item at pass.idx, and after the
\* last item the end of the pass: drop the successful and the permanently
\* failed items, persist the queue, clear isSyncing.
syncStep(w, o) ==
  LET item == w.pass.items[w.pass.idx]
      r == syncItem(w, item, o)
      threw == r.err # ""
      items == IF threw THEN BumpRetry(w.pass.items, item.id) ELSE w.pass.items
      queue == IF threw THEN BumpRetry(r.w.syncQueue, item.id)
               ELSE r.w.syncQueue
      successfulItems == IF threw THEN w.pass.successfulItems
                         ELSE w.pass.successfulItems \cup {item.id}
      failedItems ==
        IF threw /\ items[w.pass.idx].retryCount >= MaxRetries
        THEN w.pass.failedItems \cup {item.id}
        ELSE w.pass.failedItems
      kept == SelectSeq(queue, LAMBDA q : q.id \notin successfulItems
                                          /\ q.id \notin failedItems)
      last == w.pass.idx = Len(w.pass.items)
  IN [r.w EXCEPT
        !.pass = [items |-> items, idx |-> w.pass.idx + 1,
                  successfulItems |-> successfulItems,
                  failedItems |-> failedItems],
        !.syncQueue = IF last THEN kept ELSE queue,
        !.storedQueue = IF last THEN kept ELSE @,
        !.isSyncing = ~last]

\* getSyncStatus, the status handed to every listener by notifyListeners.
\* The AppwriteService reports a connection exactly when it is configured,
\* because it sets isConfigured only after its connection test has passed.
getSyncStatus ==
  LET isActuallyOnline == navOnline /\ isConfigured /\ isConfigured
  IN [isOnline |-> isActuallyOnline,
      isSyncing |-> isSyncing,
      lastSyncTime |-> lastSync,
      pendingItems |-> Len(syncQueue),
      failedItems |-> Cardinality({i \in 1..Len(syncQueue) :
                                     syncQueue[i].retryCount >= MaxRetries}),
      isTrulySynced |-> /\ isConfigured /\ isActuallyOnline
                        /\ Len(syncQueue) = 0 /\ ~isSyncing]

\* ------------------------------- EnhancedAppwriteService (the write path)

\* `if (this.isConfigured && navigator.onLine)`
EnhRemote == enhConfigured /\ navOnline

\* sortData: records by checkInTime and login records by loginTime, latest
\* first; roster entries by name.
sortData(data, key) == SortDescBy(data, key)

getLocalData(w, key) == sortData(w.local[key], key)
setLocalData(w, key, data) == [w EXCEPT !.local[key] = sortData(data, key)]

\* The thrown message of an update whose target is not in local storage.
NotFound(c) ==
  CASE c = "records" -> "Record not found"
    [] c = "students" -> "Student not found"
    [] c = "login-records" -> "Login record not found"

\* A result of a write-path call: the world after it, the value returned or
\* the error thrown, and what became of the remote step.
EnhOk(w, val, step) == [w |-> w, val |-> <<val>>, err |-> "", step |-> step]
EnhErr(w, msg) == [w |-> w, val |-> <<>>, err |-> msg, step |-> "none"]

\* getRecordsByDate
Enh_getRecordsByDate(w, date, ok) ==
  IF EnhRemote /\ ok
  THEN SortDescBy(SelectSeq(w.remote["records"], LAMBDA r : r.date = date),
                  "records")
  ELSE SelectSeq(getLocalData(w, "records"), LAMBDA r : r.date = date)

\* getAllRecords, getAllStudents, getAllLoginRecords
Enh_getAll(w, c, ok) ==
  IF EnhRemote /\ ok
  THEN SortDescBy(w.remote[c], c)
  ELSE getLocalData(w, c)

\* updateRecord, updateStudent, updateLoginRecord: the local entity first, then
\* the remote document when the identifier is a server one, else the queue.
\* The value returned on the queueing paths is read from the array after
\* setLocalData has sorted it in place.
Enh_update(w, c, id, updates, ok, now) ==
  LET records == getLocalData(w, c)
      recordIndex == IndexOfId(records, id)
      changed == [records EXCEPT ![recordIndex] = Merge(@, updates)]
      w1 == setLocalData(w, c, changed)
      sorted == sortData(changed, c)
      ri == IndexOfId(w.remote[c], id)
      response == Merge(w.remote[c][ri], WithoutId(updates))
      queued == addToSyncQueue(w1, "update", c, Merge([id |-> id], updates),
                               NoId, now)
  IN IF recordIndex = 0 THEN EnhErr(w, NotFound(c))
     ELSE IF EnhRemote /\ ~IsLocal(id)
     THEN IF ok /\ ri # 0
          THEN EnhOk([w1 EXCEPT !.remote[c][ri] = response], response, "ok")
          ELSE EnhOk(queued, sorted[recordIndex], "failed")
     ELSE EnhOk(queued, sorted[recordIndex], "skipped")

\* A deleteRecord / deleteStudent whose catch block only logs the remote error.
Enh_delete_unqueued(w, c, id, ok, now) ==
  LET w1 == setLocalData(w, c, SelectSeq(getLocalData(w, c),
                                         LAMBDA e : e.id # id))
      queued == addToSyncQueue(w1, "delete", c, [id |-> id], NoId, now)
  IN IF EnhRemote /\ ~IsLocal(id)
     THEN IF ok /\ HasId(w.remote[c], id)
          THEN [w |-> [w1 EXCEPT !.remote[c] =
                                   SelectSeq(@, LAMBDA e : e.id # id)],
                val |-> <<>>, err |-> "", step |-> "ok"]
          ELSE [w |-> w1, val |-> <<>>, err |-> "", step |-> "failed"]
     ELSE [w |-> queued, val |-> <<>>, err |-> "", step |-> "skipped"]

\* deleteRecord, deleteStudent
Enh_delete(w, c, id, ok, now) ==
  LET w1 == setLocalData(w, c, SelectSeq(getLocalData(w, c),
                                         LAMBDA e : e.id # id))
      queued == addToSyncQueue(w1, "delete", c, [id |-> id], NoId, now)
  IN IF EnhRemote /\ ~IsLocal(id)
     THEN IF ok /\ HasId(w.remote[c], id)
          THEN [w |-> [w1 EXCEPT !.remote[c] =
                                   SelectSeq(@, LAMBDA e : e.id # id)],
                val |-> <<>>, err |-> "", step |-> "ok"]
          ELSE [w |-> queued, val |-> <<>>, err |-> "", step |-> "failed"]
     ELSE [w |-> queued, val |-> <<>>, err |-> "", step |-> "skipped"]

\* createRecord and createLoginRecord up to the remote call: the local entity
\* under a temporary identifier, saved.  `records` is the array the call keeps.
Enh_createLocal(w, c, data) ==
  LET localId == LocalId(w.nextId)
      newRecord == Merge([id |-> localId], data)
      records == sortData(Append(getLocalData(w, c), newRecord), c)
  IN [w |-> [setLocalData(w, c, records) EXCEPT !.nextId = @ + 1],
      localId |-> localId, newRecord |-> newRecord, records |-> records]

\* The local identifier handed to the queue: queueRecordCreate takes it,
\* queueLoginRecordCreate does not.
QueuedLocalId(c, localId) == IF c = "records" THEN localId ELSE NoId

\* createRecord and createLoginRecord from the remote call on.  On success the
\* array kept by the call, with the server identifier, is saved over the
\* collection; on failure the create is queued.
Enh_createRemote(w, p, ok, now) ==
  LET response == Merge(p.data, [id |-> ServerId(w.nextId)])
      updatedRecords ==
        [i \in 1..Len(p.records) |->
           IF p.records[i].id = p.localId
           THEN [p.records[i] EXCEPT !.id = response.id]
           ELSE p.records[i]]
  IN IF Answers(ok)
     THEN EnhOk(setLocalData(PushRemote(w, p.c, response), p.c, updatedRecords),
                response, "ok")
     ELSE EnhOk(addToSyncQueue(w, "create", p.c, p.data,
                               QueuedLocalId(p.c, p.localId), now),
                p.newRecord, "failed")

\* getStudentByAdmissionId up to its call of createStudent: the first remote
\* match when the remote list answers, else the first local match, else none.
Enh_findStudent(w, admissionId, ok) ==
  LET ri == IndexOfAdmissionId(w.remote["students"], admissionId)
      students == getLocalData(w, "students")
      li == IndexOfAdmissionId(students, admissionId)
  IN IF EnhRemote /\ ok /\ ri # 0 THEN <<w.remote["students"][ri]>>
     ELSE IF li # 0 THEN <<students[li]>>
     ELSE <<>>

\* The admission ID is in neither roster.
Unseen(admissionId) ==
  /\ \A i \in 1..Len(local["students"]) :
        local["students"][i].admissionId # admissionId
  /\ \A i \in 1..Len(remote["students"]) :
        remote["students"][i].admissionId # admissionId

\* -------------------------------------------------------------------- Init

NoPass ==
  [items |-> <<>>, idx |-> 1, successfulItems |-> {}, failedItems |-> {}]

NoRet == [op |-> "none", arg |-> "", id |-> NoId, did |-> "", val |-> <<>>,
          step |-> "none", fresh |-> FALSE]

\* The Dashboard before anything is typed.
NoDesk == [barcode |-> "", isScanning |-> FALSE, inFlight |-> <<>>]

\* A storage entry that is not set, and a React state that is null.
Absent == [kind |-> "absent", items |-> <<>>]

\* JSON.stringify of a staff array and of one staff object, as stored.
StaffArray(seq) == [kind |-> "array", items |-> seq]
StaffObject(member) == [kind |-> "object", items |-> <<member>>]

\* The AuthProvider before a login.
NoAuth == [isAuthenticated |-> FALSE, staff |-> Absent, currentSession |-> <<>>]

\* The effect that runs when the AuthProvider mounts: a saved staff entry and
\* a saved session entry, whatever they hold, make the page authenticated.
RestoreSession ==
  IF localStaff.kind # "absent" /\ localSession # <<>>
  THEN [isAuthenticated |-> TRUE, staff |-> localStaff,
        currentSession |-> localSession]
  ELSE NoAuth

\* The state after the services are constructed on empty storage.  The
\* environment decides whether the remote store is configured and whether the
\* AppwriteService's connection test passed; OfflineSyncService.isOnline is
\* false until the browser reports "online", because its connectivity check
\* runs before the AppwriteService has finished initialising.
Init ==
  /\ local = [c \in Collections |-> <<>>]
  /\ remote = [c \in RemoteCollections |-> <<>>]
  /\ storedQueue = <<>>
  /\ lastSync = 0
  /\ navOnline \in BOOLEAN
  /\ enhConfigured \in BOOLEAN
  /\ isConfigured \in {FALSE, enhConfigured}
  /\ syncQueue = <<>>
  /\ isOnline = FALSE
  /\ isSyncing = FALSE
  /\ pass = NoPass
  /\ pending = <<>>
  /\ importJob = <<>>
  /\ nextId = 1
  /\ clock = 0
  /\ scanLog = [a \in {ToUpper(b) : b \in RawIds} |-> <<>>]
  /\ ret = NoRet
  /\ desk = NoDesk
  /\ syncInterval = TRUE
  /\ auth = NoAuth
  /\ localStaff = Absent
  /\ localSession = <<>>

\* What a client call leaves alone.
Frame ==
  UNCHANGED <<lastSync, navOnline, isConfigured, enhConfigured, isOnline,
              importJob, pageState>>

\* ------------------------------------------------- Dashboard and admin panel

\* A scan at the Dashboard.
Scan(barcode, o) ==
  /\ clock < MaxOps
  /\ LET r == handleScan(World, barcode, clock + 1, o)
     IN /\ Commit(r.w)
        /\ scanLog' = [scanLog EXCEPT ![ToUpper(barcode)] = Append(@, r.did)]
        /\ ret' = [NoRet EXCEPT !.op = "handleScan", !.arg = ToUpper(barcode),
                                !.did = r.did,
                                !.fresh = Unseen(ToUpper(barcode))]
  /\ clock' = clock + 1
  /\ Frame /\ UNCHANGED pending

\* handleAddStudent of the admin panel: createStudent of the AppwriteService.
handleAddStudent(w, admissionId, name, o) ==
  Aw_createStudent(w, [admissionId |-> admissionId, name |-> name], o[1], o[2])

AddStudent(admissionId, name, o) ==
  /\ clock < MaxOps
  /\ LET r == handleAddStudent(World, admissionId, name, o)
     IN /\ Commit(r.w)
        /\ ret' = [NoRet EXCEPT !.op = "handleAddStudent", !.arg = admissionId,
                                !.did = IF r.err = "" THEN "ok" ELSE r.err,
                                !.val = IF r.err = "" THEN <<r.val>> ELSE <<>>,
                                !.fresh = Unseen(admissionId)]
  /\ clock' = clock + 1
  /\ Frame /\ UNCHANGED <<pending, scanLog>>

\* The valid rows of a parsed file: admission IDs as the file spells them.
ImportFiles ==
  UNION {[1..n -> RawIds] : n \in 1..MaxRows}

\* executeImport up to its loop: the roster as getAllStudents returns it, kept
\* as the set of its admission IDs in lower case.
ExecuteImport(rows, ok) ==
  /\ clock < MaxOps
  /\ importJob = <<>>
  /\ LET existingStudents == Aw_getAllStudents(World, ok)
         existingIds == {ToLower(existingStudents[i].admissionId) :
                           i \in 1..Len(existingStudents)}
     IN importJob' = <<[validRecords |-> rows, i |-> 1,
                        existingIds |-> existingIds]>>
  /\ ret' = [NoRet EXCEPT !.op = "executeImport", !.did = "pending"]
  /\ clock' = clock + 1
  /\ UNCHANGED <<local, remote, storedQueue, lastSync, navOnline,
                 isConfigured, enhConfigured, syncQueue, isOnline, isSyncing,
                 pass, pending, nextId, scanLog, pageState>>

\* One turn of the loop of executeImport: a row whose ID is in existingIds is
\* counted as failed, any other is handed to createStudent and, when that
\* returns an entry, added to existingIds.
ImportRow(o) ==
  /\ importJob # <<>>
  /\ LET job == importJob[1]
         record == job.validRecords[job.i]
         known == ToLower(record) \in job.existingIds
         r == Aw_createStudent(World, [admissionId |-> record,
                                       name |-> "Alice"], o[1], o[2])
         last == job.i = Len(job.validRecords)
     IN /\ IF known THEN Commit(World) ELSE Commit(r.w)
        /\ ret' = [NoRet EXCEPT
                     !.op = "executeImport", !.arg = record,
                     !.did = IF known THEN "Student already exists"
                             ELSE IF r.err = "" THEN "ok" ELSE r.err,
                     !.val = IF ~known /\ r.err = "" THEN <<r.val>> ELSE <<>>,
                     !.fresh = Unseen(record)]
        /\ importJob' =
             IF last THEN <<>>
             ELSE <<[job EXCEPT
                       !.i = @ + 1,
                       !.existingIds =
                         IF ~known /\ r.err = ""
                         THEN @ \cup {ToLower(record)} ELSE @]>>
  /\ UNCHANGED <<lastSync, navOnline, isConfigured, enhConfigured, isOnline,
                 pending, clock, scanLog, pageState>>

\* ------------------------------------------- the Dashboard's scanner field

\* What can be in the barcode field.
Barcodes == RawIds

\* The ways the scanner tab starts handleScan: the Enter key in the field
\* (onKeyPress) and the Process button (onClick).
Triggers == {"enter", "button"}

\* `disabled={isScanning || !barcode.trim()}` on the button; the key handler
\* has no condition but the key.
TriggerEnabled(via) == via = "button" => (~desk.isScanning /\ desk.barcode # "")

\* onChange of the field.
TypeBarcode(b) ==
  /\ desk.barcode # b
  /\ desk' = [desk EXCEPT !.barcode = b]
  /\ UNCHANGED <<local, remote, storedQueue, lastSync, navOnline,
                 isConfigured, enhConfigured, syncQueue, isOnline, isSyncing,
                 pass, pending, importJob, nextId, clock, scanLog, ret,
                 syncInterval, auth, localStaff, localSession>>

\* What handleScan leaves alone.
DeskFrame ==
  UNCHANGED <<lastSync, navOnline, isConfigured, enhConfigured, isOnline,
              pending, importJob, syncInterval, auth, localStaff,
              localSession>>

\* handleScan up to its first await.  An empty field ends it at once.  With
\* the remote store configured the call is suspended at the remote query of
\* getStudentCurrentStatus and the page takes other events meanwhile; without
\* it no await of the call waits for anything but local storage, and the call
\* runs to its end before the next event.
StartScan(via) ==
  /\ clock < MaxOps
  /\ TriggerEnabled(via)
  /\ desk.barcode # ""
  /\ clock' = clock + 1
  /\ IF isConfigured
     THEN /\ desk' = [desk EXCEPT
                        !.isScanning = TRUE,
                        !.inFlight = Append(@, [barcode |-> desk.barcode,
                                                via |-> via,
                                                phase |-> "status",
                                                isCheckedIn |-> FALSE,
                                                lastRecord |-> <<>>])]
          /\ ret' = [NoRet EXCEPT !.op = "handleScan",
                                  !.arg = ToUpper(desk.barcode),
                                  !.did = "pending"]
          /\ UNCHANGED <<local, remote, nextId, syncQueue, storedQueue,
                         isSyncing, pass, scanLog>>
     ELSE LET r == handleScan(World, desk.barcode, clock + 1,
                              [k \in 1..5 |-> FALSE])
          IN /\ Commit(r.w)
             /\ scanLog' = [scanLog EXCEPT
                              ![ToUpper(desk.barcode)] = Append(@, r.did)]
             /\ ret' = [NoRet EXCEPT !.op = "handleScan",
                                     !.arg = ToUpper(desk.barcode),
                                     !.did = r.did,
                                     !.fresh = Unseen(ToUpper(desk.barcode))]
             /\ desk' = [desk EXCEPT
                           !.isScanning = FALSE,
                           !.barcode = IF r.did = "failed" THEN @ ELSE ""]
  /\ DeskFrame

\* getStudentCurrentStatus of a suspended handleScan returns.
ScanStatus(k, ok) ==
  /\ k \in 1..Len(desk.inFlight)
  /\ desk.inFlight[k].phase = "status"
  /\ LET studentStatus ==
           Aw_getStudentCurrentStatus(World, ToUpper(desk.inFlight[k].barcode),
                                      Today, ok)
     IN desk' = [desk EXCEPT
                   !.inFlight[k].phase = "act",
                   !.inFlight[k].isCheckedIn = studentStatus.isCheckedIn,
                   !.inFlight[k].lastRecord = studentStatus.lastRecord]
  /\ UNCHANGED <<local, remote, nextId, syncQueue, storedQueue, isSyncing,
                 pass, scanLog, clock, ret>>
  /\ DeskFrame

\* The rest of a suspended handleScan: handleCheckOut of the record found, or
\* handleCheckIn, and the `finally` that clears isScanning.  The field is
\* emptied when the check-in or check-out went through.
ScanAct(k, o) ==
  /\ k \in 1..Len(desk.inFlight)
  /\ desk.inFlight[k].phase = "act"
  /\ LET call == desk.inFlight[k]
         admissionId == ToUpper(call.barcode)
         r == IF call.isCheckedIn
              THEN handleCheckOut(World, call.lastRecord[1], clock, o)
              ELSE handleCheckIn(World, admissionId, clock, o)
     IN /\ Commit(r.w)
        /\ scanLog' = [scanLog EXCEPT ![admissionId] = Append(@, r.did)]
        /\ ret' = [NoRet EXCEPT !.op = "handleScan", !.arg = admissionId,
                                !.did = r.did]
        /\ desk' = [isScanning |-> FALSE,
                    barcode |-> IF r.did = "failed" THEN desk.barcode ELSE "",
                    inFlight |-> [i \in 1..(Len(desk.inFlight) - 1) |->
                                   IF i < k THEN desk.inFlight[i]
                                   ELSE desk.inFlight[i + 1]]]
  /\ UNCHANGED clock
  /\ DeskFrame

\* ------------------------------------------------- the login session

\* STAFF_DATABASE: one staff account and one admin account.
STAFF_DATABASE ==
  [m \in {"STAFF001", "ADMIN"} |->
     IF m = "ADMIN"
     THEN [id |-> "ADMIN", name |-> "ASIET Administrator",
           isAdmin |-> TRUE, password |-> "admin2024"]
     ELSE [id |-> "STAFF001", name |-> "Sarah Johnson",
           isAdmin |-> FALSE, password |-> "library123"]]

\* Staff IDs as they are typed into the login form.
TypedStaffIds == {"admin", "STAFF001", "GUEST"}

\* The optional parameter left out.
Undefined == "undefined"

\* Passwords handed to login: none, the empty string, and the two passwords
\* of the accounts, each of which is a wrong one for the other account.
Passwords == {Undefined, "", "admin2024", "library123"}

\* A value that passes `password &&`.
Truthy(password) == password # Undefined /\ password # ""

\* A login that asks every account for a password only when one is supplied.
PasswordAccepted_optional(staffMember, password) ==
  ~(Truthy(password) /\ password # staffMember.password)

\* The two password tests of login.
PasswordAccepted(staffMember, password) ==
  /\ ~(staffMember.isAdmin /\ password # staffMember.password)
  /\ ~(~staffMember.isAdmin /\ Truthy(password)
                            /\ password # staffMember.password)

\* What login and loginAdmin leave alone.
AuthFrame ==
  UNCHANGED <<lastSync, navOnline, isConfigured, enhConfigured, isOnline,
              pending, importJob, scanLog, desk, syncInterval>>

\* The part login and loginAdmin share, from the password test on: refuse, or
\* create the login record, keep it as the session and store the session and
\* the staff member.
SignIn(op, staffId, known, accepted, ok) ==
  /\ clock < MaxOps
  /\ clock' = clock + 1
  /\ IF known /\ accepted
     THEN LET staffMember == STAFF_DATABASE[ToUpper(staffId)]
              loginRecord == [staffId |-> staffMember.id,
                              loginTime |-> clock + 1]
              savedRecord == Aw_createLoginRecord(World, loginRecord, ok)
          IN /\ Commit(savedRecord.w)
             /\ auth' = [isAuthenticated |-> TRUE,
                         staff |-> StaffObject(staffMember),
                         currentSession |-> <<savedRecord.val>>]
             /\ localSession' = <<savedRecord.val>>
             /\ localStaff' = StaffObject(staffMember)
             /\ ret' = [NoRet EXCEPT !.op = op, !.arg = staffId,
                                     !.did = "true",
                                     !.val = <<savedRecord.val>>]
     ELSE /\ Commit(World)
          /\ ret' = [NoRet EXCEPT !.op = op, !.arg = staffId, !.did = "false"]
          /\ UNCHANGED <<auth, localSession, localStaff>>
  /\ AuthFrame

\* login, from the end of its one-second delay.
Login(staffId, password, ok) ==
  LET known == ToUpper(staffId) \in DOMAIN STAFF_DATABASE
  IN SignIn("login", staffId, known,
            known /\ PasswordAccepted(STAFF_DATABASE[ToUpper(staffId)],
                                      password),
            ok)

\* loginAdmin, from the end of its one-second delay: admin accounts only, and
\* the password must be the account's.
LoginAdmin(staffId, password, ok) ==
  LET known == /\ ToUpper(staffId) \in DOMAIN STAFF_DATABASE
               /\ STAFF_DATABASE[ToUpper(staffId)].isAdmin
  IN SignIn("loginAdmin", staffId, known,
            known /\ password = STAFF_DATABASE[ToUpper(staffId)].password,
            ok)

\* logout: write the logout time to the login record of the session (an
\* error is logged), clear the session and its two storage entries, and load
\* the home page, which constructs the services again.
Logout(ok) ==
  /\ clock < MaxOps
  /\ clock' = clock + 1
  /\ LET r == IF auth.currentSession # <<>>
              THEN Aw_updateLoginRecord(World, auth.currentSession[1].id,
                                        [logoutTime |-> clock + 1], ok)
              ELSE Ok(World, NoId)
     IN /\ local' = r.w.local
        /\ remote' = r.w.remote
        /\ nextId' = r.w.nextId
  /\ auth' = NoAuth
  /\ localStaff' = Absent
  /\ localSession' = <<>>
  /\ syncQueue' = storedQueue
  /\ isSyncing' = FALSE
  /\ pass' = NoPass
  /\ isOnline' = FALSE
  /\ isConfigured' \in {FALSE, enhConfigured /\ navOnline}
  /\ pending' = <<>>
  /\ importJob' = <<>>
  /\ desk' = NoDesk
  /\ syncInterval' = TRUE
  /\ ret' = [NoRet EXCEPT !.op = "logout"]
  /\ UNCHANGED <<storedQueue, lastSync, navOnline, enhConfigured, scanLog>>

\* Names of staff accounts an administrator adds.
StaffNames == {"Temp"}

\* createStaff of the AppwriteService: the remote document, else a local
\* entity pushed onto what library-staff holds; push exists only on an array.
Aw_createStaff(w, stored, staff, ok) ==
  IF RemoteAnswers(ok)
  THEN LET e == Merge(staff, [id |-> ServerId(w.nextId)])
       IN [w |-> PushRemote(w, "staff", e), stored |-> stored, err |-> ""]
  ELSE IF stored.kind = "object"
  THEN [w |-> w, stored |-> stored,
        err |-> "staffList.push is not a function"]
  ELSE LET e == Merge([id |-> LocalId(w.nextId)], staff)
       IN [w |-> [w EXCEPT !.nextId = @ + 1],
           stored |-> StaffArray(Append(stored.items, e)), err |-> ""]

CreateStaff(name, ok) ==
  /\ clock < MaxOps
  /\ clock' = clock + 1
  /\ LET r == Aw_createStaff(World, localStaff, [name |-> name], ok)
     IN /\ Commit(r.w)
        /\ localStaff' = r.stored
        /\ ret' = [NoRet EXCEPT !.op = "createStaff", !.arg = name,
                                !.did = IF r.err = "" THEN "ok" ELSE r.err]
  /\ UNCHANGED <<auth, localSession>>
  /\ AuthFrame

\* getAllStaff of the AppwriteService: the remote list, else whatever
\* library-staff holds, parsed.
GetAllStaff(ok) ==
  /\ clock < MaxOps
  /\ clock' = clock + 1
  /\ ret' = [NoRet EXCEPT
               !.op = "getAllStaff", !.did = "ok",
               !.val = IF RemoteAnswers(ok)
                       THEN <<StaffArray(remote["staff"])>>
                       ELSE IF localStaff.kind = "absent"
                       THEN <<StaffArray(<<>>)>>
                       ELSE <<localStaff>>]
  /\ UNCHANGED <<local, remote, nextId, syncQueue, storedQueue, isSyncing,
                 pass, auth, localStaff, localSession>>
  /\ AuthFrame

\* ---------------------------------------- calls of the enhanced write path

\* The identifiers a caller can name: those of the entities of either store.
IdsOf(c) ==
  {local[c][i].id : i \in 1..Len(local[c])}
    \cup {remote[c][i].id : i \in 1..Len(remote[c])}

\* A call that ran to its end within one step.
EnhReturn(op, arg, id, r) ==
  /\ Commit(r.w)
  /\ ret' = [op |-> op, arg |-> arg, id |-> id,
             did |-> IF r.err = "" THEN "ok" ELSE r.err,
             val |-> r.val, step |-> r.step, fresh |-> FALSE]
  /\ clock' = clock + 1
  /\ Frame /\ UNCHANGED <<pending, scanLog>>

\* A create after its local step: suspended at the remote call when the remote
\* step is taken, else queued and returned.
EnhCreateLocalStep(op, c, data) ==
  LET cl == Enh_createLocal(World, c, data)
  IN IF EnhRemote
     THEN /\ Commit(cl.w)
          /\ pending' = <<[op |-> op, c |-> c, data |-> data,
                           localId |-> cl.localId, newRecord |-> cl.newRecord,
                           records |-> cl.records]>>
          /\ ret' = [NoRet EXCEPT !.op = op, !.id = cl.localId,
                                  !.did = "pending"]
          /\ clock' = clock + 1
          /\ Frame /\ UNCHANGED scanLog
     ELSE EnhReturn(op, "", cl.localId,
                    EnhOk(addToSyncQueue(cl.w, "create", c, data,
                                         QueuedLocalId(c, cl.localId),
                                         clock + 1),
                          cl.newRecord, "skipped"))

\* createRecord: an existing record of the same subject, date and status is
\* returned as it is.
EnhCreateRecord(admissionId, okList) ==
  /\ clock < MaxOps
  /\ pending = <<>>
  /\ LET record == [admissionId |-> admissionId,
                    studentName |-> PlaceholderName(admissionId),
                    checkInTime |-> clock + 1,
                    date |-> Today,
                    status |-> "checked-in"]
         existingRecords == Enh_getRecordsByDate(World, record.date, okList)
         dup == First({i \in 1..Len(existingRecords) :
                         /\ existingRecords[i].admissionId = record.admissionId
                         /\ existingRecords[i].date = record.date
                         /\ existingRecords[i].status = record.status})
     IN IF dup # 0
        THEN EnhReturn("createRecord", "duplicate", existingRecords[dup].id,
                       EnhOk(World, existingRecords[dup], "none"))
        ELSE EnhCreateLocalStep("createRecord", "records", record)

\* createLoginRecord
EnhCreateLoginRecord(staffId) ==
  /\ clock < MaxOps
  /\ pending = <<>>
  /\ EnhCreateLocalStep("createLoginRecord", "login-records",
                        [staffId |-> staffId, loginTime |-> clock + 1])

\* The remote call of a suspended create answers or throws.
EnhCreateResume(ok) ==
  /\ pending # <<>>
  /\ pending[1].op \in {"createRecord", "createLoginRecord"}
  /\ LET r == Enh_createRemote(World, pending[1], ok, clock)
     IN /\ Commit(r.w)
        /\ ret' = [op |-> pending[1].op, arg |-> "",
                   id |-> pending[1].localId, did |-> "ok", val |-> r.val,
                   step |-> r.step, fresh |-> FALSE]
  /\ pending' = <<>>
  /\ Frame /\ UNCHANGED <<clock, scanLog>>

EnhUpdateRecord(id, ok) ==
  /\ clock < MaxOps
  /\ EnhReturn("updateRecord", "", id,
               Enh_update(World, "records", id,
                          [checkOutTime |-> clock + 1,
                           status |-> "checked-out"], ok, clock + 1))

EnhDeleteRecord(id, ok) ==
  /\ clock < MaxOps
  /\ EnhReturn("deleteRecord", "", id,
               Enh_delete(World, "records", id, ok, clock + 1))

EnhUpdateStudent(id, name, ok) ==
  /\ clock < MaxOps
  /\ EnhReturn("updateStudent", "", id,
               Enh_update(World, "students", id, [name |-> name], ok,
                          clock + 1))

EnhDeleteStudent(id, ok) ==
  /\ clock < MaxOps
  /\ EnhReturn("deleteStudent", "", id,
               Enh_delete(World, "students", id, ok, clock + 1))

EnhUpdateLoginRecord(id, ok) ==
  /\ clock < MaxOps
  /\ EnhReturn("updateLoginRecord", "", id,
               Enh_update(World, "login-records", id,
                          [logoutTime |-> clock + 1], ok, clock + 1))

\* createStudent and getStudentByAdmissionId call each other: createStudent
\* starts with getStudentByAdmissionId, which ends, for an ID it finds in
\* neither store, with createStudent.  A lookup that finds the ID ends the
\* chain: at the top of getStudentByAdmissionId it is the value returned, below
\* it the innermost createStudent throws "already exists" and every caller up
\* the chain rethrows.  Without a remote call there is no await in the chain,
\* so it runs until the stack overflows; with one, the chain is suspended at
\* each lookup.
EnhLookup(op, admissionId, depth, fresh, ok) ==
  LET found == Enh_findStudent(World, admissionId, ok)
      ends(did, val) ==
        /\ ret' = [NoRet EXCEPT !.op = op, !.arg = admissionId, !.did = did,
                                !.val = val, !.fresh = fresh]
        /\ pending' = <<>>
  IN /\ IF found # <<>>
        THEN IF op = "getStudentByAdmissionId" /\ depth = 0
             THEN ends("ok", found)
             ELSE ends("already exists", <<>>)
        ELSE IF ~EnhRemote
             THEN ends("Maximum call stack size exceeded", <<>>)
             ELSE /\ depth < MaxDepth
                  /\ pending' = <<[op |-> op, admissionId |-> admissionId,
                                   depth |-> depth + 1, fresh |-> fresh]>>
                  /\ ret' = [NoRet EXCEPT !.op = op, !.arg = admissionId,
                                          !.did = "pending", !.fresh = fresh]
     /\ Frame
     /\ UNCHANGED <<local, remote, nextId, syncQueue, storedQueue, isSyncing,
                    pass, scanLog>>

EnhCreateStudent(admissionId, ok) ==
  /\ clock < MaxOps
  /\ pending = <<>>
  /\ clock' = clock + 1
  /\ EnhLookup("createStudent", admissionId, 0, Unseen(admissionId), ok)

EnhGetStudentByAdmissionId(admissionId, ok) ==
  /\ clock < MaxOps
  /\ pending = <<>>
  /\ clock' = clock + 1
  /\ EnhLookup("getStudentByAdmissionId", admissionId, 0,
               Unseen(admissionId), ok)

\* The remote list of a suspended lookup answers or throws.
EnhLookupResume(ok) ==
  /\ pending # <<>>
  /\ pending[1].op \in {"createStudent", "getStudentByAdmissionId"}
  /\ UNCHANGED clock
  /\ EnhLookup(pending[1].op, pending[1].admissionId, pending[1].depth,
               pending[1].fresh, ok)

\* ------------------------------------------------------------ read calls

\* The read calls that return a list.
ListReads ==
  {"getRecordsByDate", "getAllRecords", "getAllStudents", "getAllLoginRecords"}

\* The collection a read call reads.
ReadCollection(op) ==
  CASE op \in {"getRecordsByDate", "getAllRecords"} -> "records"
    [] op = "getAllLoginRecords" -> "login-records"
    [] OTHER -> "students"

\* A read call leaves the stores and the queue alone.
ReadFrame ==
  /\ clock' = clock + 1
  /\ UNCHANGED <<local, remote, storedQueue, lastSync, navOnline,
                 isConfigured, enhConfigured, syncQueue, isOnline, isSyncing,
                 pass, pending, importJob, nextId, scanLog, pageState>>

\* A list read of the EnhancedAppwriteService.
EnhRead(op, ok) ==
  /\ clock < MaxOps
  /\ LET list == IF op = "getRecordsByDate"
                 THEN Enh_getRecordsByDate(World, Today, ok)
                 ELSE Enh_getAll(World, ReadCollection(op), ok)
     IN ret' = [NoRet EXCEPT
                  !.op = op, !.did = "ok", !.val = <<list>>,
                  !.step = IF ~EnhRemote THEN "skipped"
                           ELSE IF ok THEN "ok" ELSE "failed"]
  /\ ReadFrame

\* A list read of the AppwriteService.
AwRead(op, ok) ==
  /\ clock < MaxOps
  /\ LET list ==
           CASE op = "getRecordsByDate" -> Aw_getRecordsByDate(World, Today, ok)
             [] op = "getAllRecords" -> Aw_getAllRecords(World, ok)
             [] op = "getAllStudents" -> Aw_getAllStudents(World, ok)
             [] op = "getAllLoginRecords" -> Aw_getAllLoginRecords(World, ok)
     IN ret' = [NoRet EXCEPT
                  !.op = op, !.arg = "AppwriteService", !.did = "ok",
                  !.val = <<list>>,
                  !.step = IF ~isConfigured THEN "skipped"
                           ELSE IF Answers(ok) THEN "ok" ELSE "failed"]
  /\ ReadFrame

\* getStudentByAdmissionId of the AppwriteService, as the admin panel calls
\* it when a record is edited.
AwGetStudentByAdmissionId(admissionId, o) ==
  /\ clock < MaxOps
  /\ LET r == Aw_getStudentByAdmissionId(World, admissionId, o[1], o[2], o[3])
     IN /\ Commit(r.w)
        /\ ret' = [NoRet EXCEPT
                     !.op = "AppwriteService.getStudentByAdmissionId",
                     !.arg = admissionId,
                     !.did = IF r.err = "" THEN "ok" ELSE r.err,
                     !.val = IF r.err = "" THEN <<r.val>> ELSE <<>>,
                     !.step = IF ~isConfigured THEN "skipped"
                              ELSE IF Answers(o[1]) THEN "ok" ELSE "failed",
                     !.fresh = Unseen(admissionId)]
  /\ clock' = clock + 1
  /\ Frame /\ UNCHANGED <<pending, scanLog>>

\* ------------------------------------------------------------ the sync pass

\* One item of the running pass is attempted.
SyncItem(o) ==
  /\ isSyncing
  /\ pass.idx <= Len(pass.items)
  /\ LET w == syncStep(World, o)
     IN /\ Commit(w)
        /\ lastSync' = IF ~w.isSyncing /\ w.pass.successfulItems # {}
                       THEN lastSync + 1 ELSE lastSync
  /\ UNCHANGED <<navOnline, isConfigured, enhConfigured, isOnline, pending,
                 importJob, clock, scanLog, ret, pageState>>

\* The 30-second timer fires, unless destroy has cleared it.
PeriodicSync ==
  /\ syncInterval
  /\ isOnline /\ ~isSyncing /\ Len(syncQueue) > 0
  /\ Commit(attemptSync(World, isOnline))
  /\ Frame /\ UNCHANGED <<pending, clock, scanLog, ret>>

\* forcSync, the manual trigger.
forcSync ==
  /\ Commit(attemptSync(World, isOnline))
  /\ Frame /\ UNCHANGED <<pending, clock, scanLog, ret>>

\* destroy: clear the timer (and forget the status listeners of the pages).
\* The two listeners on window stay registered.
destroy ==
  /\ syncInterval
  /\ syncInterval' = FALSE
  /\ UNCHANGED <<local, remote, storedQueue, lastSync, navOnline,
                 isConfigured, enhConfigured, syncQueue, isOnline, isSyncing,
                 pass, pending, importJob, nextId, clock, scanLog, ret, desk,
                 auth, localStaff, localSession>>

\* ---------------------------------------------------------- the environment

\* The browser's "online" event.
BrowserOnline ==
  /\ ~navOnline
  /\ navOnline' = TRUE
  /\ isOnline' = TRUE
  /\ Commit(attemptSync(World, TRUE))
  /\ UNCHANGED <<lastSync, isConfigured, enhConfigured, pending, importJob,
                 clock, scanLog, ret, pageState>>

\* The browser's "offline" event.
BrowserOffline ==
  /\ navOnline
  /\ navOnline' = FALSE
  /\ isOnline' = FALSE
  /\ Commit(World)
  /\ UNCHANGED <<lastSync, isConfigured, enhConfigured, pending, importJob,
                 clock, scanLog, ret, pageState>>

\* The page is reloaded: the calls in flight are gone, the services are
\* constructed again, and the queue is read back from localStorage.  The new
\* AppwriteService passes its connection test only when the remote store is
\* configured and the browser online; the new OfflineSyncService ends its
\* constructor with isOnline false, as the first one did, and with its timer
\* armed; the Dashboard is mounted afresh and the AuthProvider restores a saved
\* session.  A reload counts as a client call.
Reload ==
  /\ clock < MaxOps
  /\ clock' = clock + 1
  /\ syncQueue' = storedQueue
  /\ isSyncing' = FALSE
  /\ pass' = NoPass
  /\ isOnline' = FALSE
  /\ isConfigured' \in {FALSE, enhConfigured /\ navOnline}
  /\ pending' = <<>>
  /\ importJob' = <<>>
  /\ ret' = [NoRet EXCEPT !.op = "reload"]
  /\ desk' = NoDesk
  /\ syncInterval' = TRUE
  /\ auth' = RestoreSession
  /\ UNCHANGED <<local, remote, storedQueue, lastSync, navOnline,
                 enhConfigured, nextId, scanLog, localStaff, localSession>>

\* ------------------------------------------------------------ specification

UpperIds == {ToUpper(b) : b \in RawIds}

\* The calls of the Dashboard and the admin panel.
NextScan ==
  \/ \E b \in RawIds, o \in Outcomes : Scan(b, o)
  \/ \E a \in RawIds, n \in AdminNames, o \in AddOutcomes :
       AddStudent(a, n, o)


\* The calls of the write path.
WriteCall ==
  \/ \E a \in UpperIds, ok \in BOOLEAN : EnhCreateRecord(a, ok)
  \/ \E u \in StaffIds : EnhCreateLoginRecord(u)
  \/ \E ok \in BOOLEAN : EnhCreateResume(ok)
  \/ \E id \in IdsOf("records"), ok \in BOOLEAN : EnhUpdateRecord(id, ok)
  \/ \E id \in IdsOf("records"), ok \in BOOLEAN : EnhDeleteRecord(id, ok)
  \/ \E id \in IdsOf("students"), n \in NewNames, ok \in BOOLEAN :
       EnhUpdateStudent(id, n, ok)
  \/ \E id \in IdsOf("students"), ok \in BOOLEAN : EnhDeleteStudent(id, ok)
  \/ \E id \in IdsOf("login-records"), ok \in BOOLEAN :
       EnhUpdateLoginRecord(id, ok)
  \/ \E a \in UpperIds, ok \in BOOLEAN : EnhCreateStudent(a, ok)
  \/ \E a \in UpperIds, ok \in BOOLEAN : EnhGetStudentByAdmissionId(a, ok)
  \/ \E ok \in BOOLEAN : EnhLookupResume(ok)

\* The queue's own steps and the browser's events.
SyncOrEnv ==
  \/ \E o \in SyncOutcomes : SyncItem(o)
  \/ PeriodicSync
  \/ forcSync
  \/ BrowserOnline
  \/ BrowserOffline

\* The Dashboard and the admin panel on the AppwriteService alone, with the
\* browser going offline and online.
NextDesk == NextScan \/ BrowserOnline \/ BrowserOffline

SpecScan == Init /\ [][NextDesk]_vars

\* The scanner tab of the Dashboard, event by event: typing, the Enter key,
\* the Process button, and the returns of the calls in flight.
NextScanner ==
  \/ \E b \in Barcodes : TypeBarcode(b)
  \/ \E via \in Triggers : StartScan(via)
  \/ \E k \in 1..MaxOps, ok \in BOOLEAN : ScanStatus(k, ok)
  \/ \E k \in 1..MaxOps, o \in Outcomes : ScanAct(k, o)
  \/ BrowserOnline
  \/ BrowserOffline

SpecScanner == Init /\ [][NextScanner]_vars

Next == NextScan \/ WriteCall \/ SyncOrEnv

Spec == Init /\ [][Next]_vars

\* queueStudentCreate, the queue's public method, called for a local roster
\* entry that still carries a temporary identifier.
QueueStudentCreate(i) ==
  /\ clock < MaxOps
  /\ IsLocal(local["students"][i].id)
  /\ Commit(addToSyncQueue(World, "create", "students",
                           WithoutId(local["students"][i]),
                           local["students"][i].id, clock + 1))
  /\ ret' = [NoRet EXCEPT !.op = "queueStudentCreate",
                          !.arg = local["students"][i].admissionId,
                          !.id = local["students"][i].id]
  /\ clock' = clock + 1
  /\ Frame /\ UNCHANGED <<pending, scanLog>>

\* The Dashboard, the admin panel and the queue driven through its public
\* method.
NextQueue ==
  \/ NextScan
  \/ \E i \in 1..Len(local["students"]) : QueueStudentCreate(i)
  \/ SyncOrEnv

SpecQueue == Init /\ [][NextQueue]_vars

\* A queued attendance item makes one remote call, the first of the three.
RecordOutcomes == {[k \in 1..3 |-> ok] : ok \in BOOLEAN}

\* The attendance write path and the queue, where a remote call of the pass
\* answers or throws and neither the pass nor the timer is postponed forever:
\* every remote call returns and the timer keeps firing.
NextPass ==
  \/ \E a \in UpperIds, ok \in BOOLEAN : EnhCreateRecord(a, ok)
  \/ \E ok \in BOOLEAN : EnhCreateResume(ok)
  \/ \E id \in IdsOf("records"), ok \in BOOLEAN : EnhUpdateRecord(id, ok)
  \/ \E o \in RecordOutcomes : SyncItem(o)
  \/ PeriodicSync
  \/ BrowserOnline
  \/ BrowserOffline

SpecPass ==
  /\ Init
  /\ [][NextPass]_vars
  /\ WF_vars(\E o \in RecordOutcomes : SyncItem(o))
  /\ WF_vars(PeriodicSync)

\* The same with the teardown of the queue's service.
NextTeardown == NextQueue \/ destroy

SpecTeardown == Init /\ [][NextTeardown]_vars

\* Every way a roster entry is made: the admin panel's add and import, the
\* scan's auto-registration, createStudent of the write path and the pass.
NextRoster ==
  \/ NextQueue
  \/ \E rows \in ImportFiles, ok \in BOOLEAN : ExecuteImport(rows, ok)
  \/ \E o \in AddOutcomes : ImportRow(o)
  \/ \E a \in UpperIds, ok \in BOOLEAN : EnhCreateStudent(a, ok)
  \/ \E ok \in BOOLEAN : EnhLookupResume(ok)

SpecRoster == Init /\ [][NextRoster]_vars

\* Every call of the model, the queue and the browser's events, with page
\* reloads.
NextReload == Next \/ Reload

SpecReload == Init /\ [][NextReload]_vars

\* The login form, the logout button and the staff accounts, with page
\* reloads and the browser going offline and online.
NextAuth ==
  \/ \E s \in TypedStaffIds, p \in Passwords, ok \in BOOLEAN : Login(s, p, ok)
  \/ \E s \in TypedStaffIds, p \in Passwords \ {Undefined}, ok \in BOOLEAN :
       LoginAdmin(s, p, ok)
  \/ \E ok \in BOOLEAN : Logout(ok)
  \/ \E n \in StaffNames, ok \in BOOLEAN : CreateStaff(n, ok)
  \/ \E ok \in BOOLEAN : GetAllStaff(ok)
  \/ Reload
  \/ BrowserOnline
  \/ BrowserOffline

SpecAuth == Init /\ [][NextAuth]_vars

\* The read calls of both services, over stores filled by the Dashboard, the
\* admin panel and the login records of the write path.
NextRead ==
  \/ NextDesk
  \/ \E u \in StaffIds : EnhCreateLoginRecord(u)
  \/ \E ok \in BOOLEAN : EnhCreateResume(ok)
  \/ \E op \in ListReads, ok \in BOOLEAN : EnhRead(op, ok)
  \/ \E op \in ListReads, ok \in BOOLEAN : AwRead(op, ok)
  \/ \E a \in UpperIds, ok \in BOOLEAN : EnhGetStudentByAdmissionId(a, ok)
  \/ \E ok \in BOOLEAN : EnhLookupResume(ok)
  \/ \E a \in UpperIds, o \in SyncOutcomes : AwGetStudentByAdmissionId(a, o)

SpecRead == Init /\ [][NextRead]_vars

\* Every remote call of a queued item answers.
AllOk == [k \in 1..3 |-> TRUE]

\* The attendance write path with a remote store that, once the browser is
\* online, accepts every call of the sync pass; the timer, the "online" event,
\* the pass and a suspended create are never postponed forever.
NextFair ==
  \/ \E a \in UpperIds, ok \in BOOLEAN : EnhCreateRecord(a, ok)
  \/ \E ok \in BOOLEAN : EnhCreateResume(ok)
  \/ \E id \in IdsOf("records"), ok \in BOOLEAN : EnhUpdateRecord(id, ok)
  \/ SyncItem(AllOk)
  \/ PeriodicSync
  \/ BrowserOnline
  \/ BrowserOffline

SpecFair ==
  /\ Init
  /\ [][NextFair]_vars
  /\ WF_vars(\E ok \in BOOLEAN : EnhCreateResume(ok))
  /\ WF_vars(SyncItem(AllOk))
  /\ WF_vars(PeriodicSync)
  /\ WF_vars(BrowserOnline)

\* The same with the scans of the Dashboard.
NextFairScan ==
  \/ NextFair
  \/ \E b \in RawIds, o \in Outcomes : Scan(b, o)

SpecFairScan ==
  /\ Init
  /\ [][NextFairScan]_vars
  /\ WF_vars(\E ok \in BOOLEAN : EnhCreateResume(ok))
  /\ WF_vars(SyncItem(AllOk))
  /\ WF_vars(PeriodicSync)
  /\ WF_vars(BrowserOnline)

\* ------------------------------------------------------------------- claims

\* The scans of a log that opened or closed a record.
Effective(log) == SelectSeq(log, LAMBDA d : d # "failed")

\* C1: the serialized scans of one admission ID on one day alternate between
\* opening and closing a record, the first one opening: there are never two
\* consecutive opens, whatever the remote store did between and during them.
C1_ScansAlternate ==
  \A a \in DOMAIN scanLog :
    \A i \in 1..Len(Effective(scanLog[a])) :
      Effective(scanLog[a])[i] = IF i % 2 = 1 THEN "open" ELSE "close"

\* The checked-in records of a subject for a date in a collection.
OpenRecords(seq, admissionId, date) ==
  {i \in 1..Len(seq) : /\ seq[i].admissionId = admissionId
                        /\ seq[i].date = date
                        /\ seq[i].status = "checked-in"}

\* C2: the local and the remote attendance collection each hold at most one
\* checked-in record per admission ID and date.
C2_OneOpenRecordPerDay ==
  \A a \in UpperIds :
    /\ Cardinality(OpenRecords(local["records"], a, Today)) <= 1
    /\ Cardinality(OpenRecords(remote["records"], a, Today)) <= 1

\* The records of a subject for a date in a collection.
RecordsOf(seq, admissionId, date) ==
  {i \in 1..Len(seq) : seq[i].admissionId = admissionId /\ seq[i].date = date}

HasPlaceholder(seq, admissionId) ==
  \E i \in 1..Len(seq) : /\ seq[i].admissionId = admissionId
                          /\ seq[i].name = PlaceholderName(admissionId)

\* C3: a scan of an admission ID without a record for today creates exactly
\* one record, checked-in, dated today and carrying the time of the scan; an ID
\* absent from the roster gets a roster entry "Student <id>"; when the scan is
\* made online and the remote store answers every call, both are in the remote
\* store.
C3_FirstScanOpens ==
  [][\A b \in RawIds, o \in Outcomes :
       LET a == ToUpper(b)
           all == local["records"] \o remote["records"]
           all2 == local'["records"] \o remote'["records"]
           new == RecordsOf(all2, a, Today)
       IN (Scan(b, o) /\ RecordsOf(all, a, Today) = {})
          => /\ Cardinality(new) = 1
             /\ \A i \in new : /\ all2[i].status = "checked-in"
                                /\ all2[i].checkInTime = clock'
             /\ Unseen(a) => \/ HasPlaceholder(local'["students"], a)
                             \/ HasPlaceholder(remote'["students"], a)
             /\ (isConfigured /\ navOnline /\ \A k \in 1..5 : o[k])
                  => /\ RecordsOf(remote'["records"], a, Today) # {}
                     /\ \E i \in 1..Len(remote'["students"]) :
                          remote'["students"][i].admissionId = a]_vars

\* C4: a createStudent or getStudentByAdmissionId call of the write path for
\* an admission ID in neither roster ends by returning a roster entry for that
\* ID that carries a temporary identifier and is saved in local storage.
C4_UnseenIdReturnsNewEntry ==
  (/\ ret.op \in {"createStudent", "getStudentByAdmissionId"}
   /\ ret.fresh
   /\ ret.did # "pending")
  => /\ ret.did = "ok"
     /\ Len(ret.val) = 1
     /\ ret.val[1].admissionId = ret.arg
     /\ IsLocal(ret.val[1].id)
     /\ \E i \in 1..Len(local["students"]) : local["students"][i] = ret.val[1]

\* Every record of local storage is in the remote store with the same field
\* values, and nothing is waiting in the queue.
Applied ==
  /\ syncQueue = <<>>
  /\ pending = <<>>
  /\ \A i \in 1..Len(local["records"]) :
       \E j \in 1..Len(remote["records"]) :
         WithoutId(remote["records"][j]) = WithoutId(local["records"][i])

\* C5: when the remote store is configured and the browser comes online and
\* stays online, every record created or updated through the write path is in
\* the end in the remote store with the field values local storage holds.
C5_EventuallyApplied ==
  <>[](navOnline /\ isOnline /\ isConfigured) => <>[]Applied

WriteOps == {"createRecord", "updateRecord", "deleteRecord", "createStudent",
             "updateStudent", "deleteStudent", "createLoginRecord",
             "updateLoginRecord"}

CollectionOf(op) ==
  CASE op \in {"createRecord", "updateRecord", "deleteRecord"} -> "records"
    [] op \in {"createStudent", "updateStudent", "deleteStudent"} -> "students"
    [] OTHER -> "login-records"

TypeOf(op) ==
  CASE op \in {"createRecord", "createStudent", "createLoginRecord"} -> "create"
    [] op \in {"deleteRecord", "deleteStudent"} -> "delete"
    [] OTHER -> "update"

\* This step ends a call of the write path.
WriteReturns ==
  /\ clock' # clock \/ pending' # pending
  /\ ret'.op \in WriteOps
  /\ ret'.did # "pending"

\* The local step of the call this step ends is valid: the target of an update
\* or delete is in local storage, the entity of a create is not a duplicate.
LocalStepValid ==
  CASE TypeOf(ret'.op) \in {"update", "delete"} ->
         HasId(local[CollectionOf(ret'.op)], ret'.id)
    [] ret'.op = "createStudent" -> ret'.fresh
    [] OTHER -> ret'.arg # "duplicate"

\* C6: a call of the write path whose local step is valid completes without an
\* error, whatever the remote store does, and when the remote step did not
\* succeed it returns the entity as local storage now holds it (for a create,
\* the entity under its temporary identifier).
C6_RemoteErrorsAbsorbed ==
  [][(WriteReturns /\ LocalStepValid)
     => /\ ret'.did = "ok"
        /\ (ret'.step # "ok" /\ TypeOf(ret'.op) = "update")
             => /\ Len(ret'.val) = 1
                /\ ret'.val[1].id = ret'.id
                /\ \E i \in 1..Len(local'[CollectionOf(ret'.op)]) :
                     local'[CollectionOf(ret'.op)][i] = ret'.val[1]
        /\ (ret'.step # "ok" /\ TypeOf(ret'.op) = "create")
             => /\ Len(ret'.val) = 1
                /\ ret'.val[1].id = ret'.id
                /\ IsLocal(ret'.id)]_vars

\* The identifiers of the queued items.
QueueIds(q) == {q[i].id : i \in 1..Len(q)}

\* C7: a call of the write path that is applied locally appends exactly one
\* item to the queue when its remote step is skipped or fails, of the call's
\* type and collection, carrying its payload and retryCount 0, and no item
\* when its remote step succeeds; no other step appends an item.
C7_OneItemPerUnsyncedWrite ==
  [][IF WriteReturns /\ ret'.step \in {"skipped", "failed"}
     THEN /\ Len(syncQueue') = Len(syncQueue) + 1
          /\ SubSeq(syncQueue', 1, Len(syncQueue)) = syncQueue
          /\ LET item == syncQueue'[Len(syncQueue')]
             IN /\ item.id \notin QueueIds(syncQueue)
                /\ item.type = TypeOf(ret'.op)
                /\ item.collection = CollectionOf(ret'.op)
                /\ item.retryCount = 0
                /\ item.type = "create" =>
                     Merge([id |-> ret'.id], item.data) = ret'.val[1]
                /\ item.type # "create" => item.data.id = ret'.id
                /\ item.type = "update" =>
                     \A f \in DOMAIN item.data \ {"id"} :
                       item.data[f] = ret'.val[1][f]
     ELSE QueueIds(syncQueue') \subseteq QueueIds(syncQueue)]_vars

\* A call of the write path has just been queued after its remote step failed.
C7_Witness ==
  /\ ret.op \in WriteOps
  /\ ret.step = "failed"
  /\ syncQueue # <<>>
  /\ syncQueue[Len(syncQueue)].retryCount = 0
  /\ syncQueue[Len(syncQueue)].type = TypeOf(ret.op)

\* C8: when a pass attempts a queued create and the remote store takes the new
\* entity, the item counts as synced and is gone from the queue when the pass
\* ends, and the local entity that carried the temporary identifier carries
\* the identifier the remote store assigned.
C8_CreateRoundTrip ==
  [][\A o \in SyncOutcomes :
       LET item == pass.items[pass.idx]
           c == item.collection
           newId == remote'[c][Len(remote'[c])].id
       IN (/\ SyncItem(o)
           /\ item.type = "create"
           /\ Len(remote'[c]) = Len(remote[c]) + 1)
          => /\ item.id \in pass'.successfulItems
             /\ ~isSyncing' => item.id \notin QueueIds(syncQueue')
             /\ WithoutId(remote'[c][Len(remote'[c])]) = item.data
             /\ \A i \in 1..Len(local[c]) :
                  (/\ IsLocal(local[c][i].id)
                   /\ \/ local[c][i].id = item.localId
                      \/ /\ item.localId = NoId
                         /\ WithoutId(local[c][i]) = item.data)
                  => local'[c][i].id = newId]_vars

\* C9: when a pass attempts a queued roster create whose admission ID is
\* already in the remote roster, the remote roster stays as it is, the item
\* counts as synced, and the local entry that carried the item's temporary
\* identifier carries the identifier of the remote entry.
C9_RosterCreateIdempotent ==
  [][\A o \in SyncOutcomes :
       LET item == pass.items[pass.idx]
           ri == IndexOfAdmissionId(remote["students"],
                                    item.data.admissionId)
       IN (/\ SyncItem(o)
           /\ item.collection = "students"
           /\ item.type = "create"
           /\ ri # 0)
          => /\ remote'["students"] = remote["students"]
             /\ item.id \in pass'.successfulItems
             /\ \A i \in 1..Len(local["students"]) :
                  local["students"][i].id = item.localId
                  => local'["students"][i].id = remote["students"][ri].id]_vars

\* C10: a createStudent call, of either service, for an admission ID already
\* in the roster fails with an "already exists" error and leaves both stores
\* and the queue as they were.
C10_DuplicateRejected ==
  [][((\/ \E a \in RawIds, n \in AdminNames, o \in AddOutcomes :
           AddStudent(a, n, o)
       \/ \E a \in UpperIds, ok \in BOOLEAN : EnhCreateStudent(a, ok)
       \/ \E ok \in BOOLEAN : EnhLookupResume(ok))
      /\ ret'.op \in {"handleAddStudent", "createStudent"}
      /\ ~ret'.fresh
      /\ ret'.did # "pending")
     => /\ ret'.did = "already exists"
        /\ local' = local
        /\ remote' = remote
        /\ syncQueue' = syncQueue]_vars

\* The admission IDs of a roster, one per entry.
AdmissionIds(seq) == [i \in 1..Len(seq) |-> seq[i].admissionId]

\* No value occurs twice in the sequence.
NoRepeat(seq) ==
  \A i, j \in 1..Len(seq) : seq[i] = seq[j] => i = j

C13_DroppedItemsReported ==
  ~isSyncing => getSyncStatus.failedItems >= Cardinality(pass.failedItems)

\* C14: one pass at a time.  While a pass is running, an attemptSync made by
\* any trigger returns at once and leaves everything as it is, and no step
\* other than the pass's own touches the locals of the pass or clears
\* isSyncing: an enqueue only appends to the queue, the "online" event only
\* sets the flags.
C14_OnePassAtATime ==
  /\ [](isSyncing => \A online \in BOOLEAN : attemptSync(World, online) = World)
  /\ [][(isSyncing /\ ~(\E o \in SyncOutcomes : SyncItem(o)))
        => /\ pass' = pass
           /\ isSyncing'
           /\ SubSeq(syncQueue', 1, Len(syncQueue)) = syncQueue]_vars

\* A pass is running and the queue holds an item that was appended after the
\* pass took its copy of the queue.
C14_Witness ==
  /\ isSyncing
  /\ \E i \in 1..Len(syncQueue) : syncQueue[i].id \notin QueueIds(pass.items)

\* C15: a pass starts on a copy of the queue, which is in enqueue order, and
\* every turn of its loop attempts the item at the next position of the copy,
\* exactly once: the item ends in successfulItems or with its retryCount
\* raised by one, the other items of the copy stay as they are, and the pass
\* goes on to the next item whether the attempt threw or not, ending only
\* after the last one.
C15_PassAttemptsEachItemOnce ==
  /\ [](/\ \A i, j \in 1..Len(syncQueue) :
             i < j => syncQueue[i].id[2] < syncQueue[j].id[2]
        /\ isSyncing => pass.idx \in 1..Len(pass.items))
  /\ [][(~isSyncing /\ isSyncing')
        => /\ pass'.items = syncQueue'
           /\ pass'.idx = 1
           /\ pass'.successfulItems = {}]_vars
  /\ [][\A o \in SyncOutcomes :
         LET item == pass.items[pass.idx]
             after == pass'.items[pass.idx]
         IN SyncItem(o)
            => /\ pass'.idx = pass.idx + 1
               /\ Len(pass'.items) = Len(pass.items)
               /\ \A k \in 1..Len(pass.items) :
                    k # pass.idx => pass'.items[k] = pass.items[k]
               /\ item.id \notin pass.successfulItems
               /\ pass'.successfulItems \ {item.id} = pass.successfulItems
               /\ IF item.id \in pass'.successfulItems
                  THEN after = item
                  ELSE after = [item EXCEPT !.retryCount = @ + 1]
               /\ isSyncing' <=> pass.idx < Len(pass.items)]_vars

\* In one pass an item threw and an item after it was attempted and synced.
C15_Witness ==
  \E k, j \in 1..Len(pass.items) :
    /\ k < j /\ j < pass.idx
    /\ pass.items[k].id \notin pass.successfulItems
    /\ pass.items[j].id \in pass.successfulItems

\* Items are waiting, the browser is online, the remote store is configured
\* and no pass is running.
SyncDue ==
  /\ syncQueue # <<>>
  /\ navOnline
  /\ isConfigured
  /\ ~isSyncing

\* C16: whenever items are waiting while the browser is online, the remote
\* store is configured and answers, and no pass is running, a pass starts in
\* the end (unless the browser goes offline first): at the enqueue, at a tick
\* of the timer or at the browser's "online" event.
C16_PassEventuallyStarts ==
  SyncDue ~> (isSyncing \/ ~SyncDue)

\* The server-assigned identifiers of the checked-in records of a subject for
\* today, in either store.
OpenServerIds(admissionId) ==
  {id \in IdsOf("records") :
     /\ ~IsLocal(id)
     /\ \/ \E i \in OpenRecords(local["records"], admissionId, Today) :
             local["records"][i].id = id
        \/ \E j \in OpenRecords(remote["records"], admissionId, Today) :
             remote["records"][j].id = id}

\* A check-out of a record under a server identifier is waiting in the queue.
QueuedCheckOut ==
  \E i \in 1..Len(syncQueue) :
    /\ syncQueue[i].type = "update"
    /\ syncQueue[i].collection = "records"
    /\ ~IsLocal(syncQueue[i].data.id)
    /\ syncQueue[i].data.status = "checked-out"

\* The queue is empty, a sync time is stored, and every local record that is
\* checked-out under a server identifier is checked-out in the remote store.
CheckOutsSynced ==
  /\ syncQueue = <<>>
  /\ lastSync > 0
  /\ \A i \in 1..Len(local["records"]) :
       (/\ ~IsLocal(local["records"][i].id)
        /\ local["records"][i].status = "checked-out")
       => \E j \in 1..Len(remote["records"]) :
            /\ remote["records"][j].id = local["records"][i].id
            /\ remote["records"][j].status = "checked-out"

\* C17: a scan made offline of a subject whose checked-in record for today
\* carries a server identifier closes that record in local storage at once,
\* with the time of the scan, and appends exactly one update item for it to
\* the queue; once the browser is online again and stays online, the queue
\* drains, the remote record is checked-out and a sync time is stored.
C17_OfflineCheckOutSyncs ==
  /\ [][\A b \in RawIds, o \in Outcomes :
         (/\ Scan(b, o)
          /\ ~navOnline
          /\ OpenServerIds(ToUpper(b)) # {})
         => /\ \E i \in 1..Len(local'["records"]) :
                 /\ local'["records"][i].id \in OpenServerIds(ToUpper(b))
                 /\ local'["records"][i].status = "checked-out"
                 /\ local'["records"][i].checkOutTime = clock'
            /\ Len(syncQueue') = Len(syncQueue) + 1
            /\ syncQueue'[Len(syncQueue')].type = "update"
            /\ syncQueue'[Len(syncQueue')].collection = "records"
            /\ syncQueue'[Len(syncQueue')].data.id
                 \in OpenServerIds(ToUpper(b))]_vars
  /\ <>[](navOnline /\ isOnline /\ isConfigured)
       => (QueuedCheckOut ~> CheckOutsSynced)

\* C18: whenever no pass is running, the queue kept under library-sync-queue
\* is the queue in memory, item by item with the same retryCount, so a reload
\* at such a moment gives the new service the queue the old one had.
C18_QueueSurvivesReload ==
  /\ [](~isSyncing => storedQueue = syncQueue)
  /\ [][(Reload /\ ~isSyncing) => syncQueue' = syncQueue]_vars

\* The page has been reloaded and the new service holds an item that had
\* failed before the reload.
C18_Witness ==
  /\ ret.op = "reload"
  /\ \E i \in 1..Len(syncQueue) : syncQueue[i].retryCount > 0

\* The entities of a sequence.
Entities(seq) == {seq[i] : i \in 1..Len(seq)}

\* This step ends a read call.
ReadReturns ==
  /\ clock' # clock \/ pending' # pending
  /\ ret'.op \in ListReads \cup {"getStudentByAdmissionId",
                                  "AppwriteService.getStudentByAdmissionId"}
  /\ ret'.did # "pending"

\* C19: a read call of either service never raises an error, and when the
\* remote store is not asked or its call fails the call returns what local
\* storage holds: the entities of the collection (those of the date for
\* getRecordsByDate; every record of the model is of today), or the local
\* roster entry with the admission ID asked for.
C19_ReadsFallBackToLocal ==
  [][ReadReturns
     => /\ ret'.did = "ok"
        /\ Len(ret'.val) = 1
        /\ (ret'.step # "ok" /\ ret'.op \in ListReads)
             => Entities(ret'.val[1]) = Entities(local[ReadCollection(ret'.op)])
        /\ (ret'.step # "ok" /\ ret'.op \notin ListReads)
             => /\ ret'.val[1] \in Entities(local["students"])
                /\ ret'.val[1].admissionId = ret'.arg
        /\ local' = local
        /\ remote' = remote]_vars

\* C20: a scan whose query for today's records is made to the remote store
\* and fails ends as a failure and changes nothing: no record and no roster
\* entry is written in either store and the queue stays as it is.
C20_QueryFailureStopsScan ==
  [][\A b \in RawIds, o \in Outcomes :
       (Scan(b, o) /\ isConfigured /\ ~Answers(o[1]))
       => /\ ret'.did = "failed"
          /\ local' = local
          /\ remote' = remote
          /\ syncQueue' = syncQueue]_vars

\* The admission IDs of the handleScan calls in flight.
InFlightIds ==
  [k \in 1..Len(desk.inFlight) |-> ToUpper(desk.inFlight[k].barcode)]

\* C21: no two handleScan calls of the Dashboard are in flight for the same
\* admission ID, and while isScanning is true neither the Process button nor
\* the Enter key starts a handleScan for an ID that has one in flight.
C21_NoOverlappingScans ==
  /\ [](NoRepeat(InFlightIds))
  /\ [][\A via \in Triggers :
         (/\ StartScan(via)
          /\ desk.isScanning
          /\ \E k \in 1..Len(InFlightIds) :
               InFlightIds[k] = ToUpper(desk.barcode))
         => desk'.inFlight = desk.inFlight]_vars

\* C22: a login or loginAdmin for an admin account returns true exactly when
\* the password supplied is the account's; a login for a staff account with no
\* password returns true; a call that returns true leaves the page
\* authenticated as that account; a call that returns false changes nothing:
\* the session state, its two storage entries, both stores and the queue are as
\* before, so a page that was not authenticated is not authenticated after it.
C22_AdminPasswordRequired ==
  [][\A s \in TypedStaffIds, p \in Passwords, ok \in BOOLEAN :
       LET known == ToUpper(s) \in DOMAIN STAFF_DATABASE
           m == STAFF_DATABASE[ToUpper(s)]
       IN (Login(s, p, ok) \/ (p # Undefined /\ LoginAdmin(s, p, ok)))
          => /\ ret'.did \in {"true", "false"}
             /\ (known /\ m.isAdmin)
                  => (ret'.did = "true" <=> p = m.password)
             /\ (known /\ ~m.isAdmin /\ p = Undefined /\ ret'.op = "login")
                  => ret'.did = "true"
             /\ ~known => ret'.did = "false"
             /\ ret'.did = "true"
                  => /\ auth'.isAuthenticated
                     /\ auth'.staff = StaffObject(m)
             /\ ret'.did = "false"
                  => UNCHANGED <<auth, localStaff, localSession, local,
                                 remote, syncQueue, storedQueue>>]_vars

\* An admin login with a wrong password has just been refused on a page that
\* is not authenticated, after an earlier session had left a login record.
C22_Witness ==
  /\ ret.op \in {"login", "loginAdmin"}
  /\ ret.arg = "admin"
  /\ ret.did = "false"
  /\ ~auth.isAuthenticated
  /\ local["login-records"] \o remote["login-records"] # <<>>

\* C30: the entry library-staff, where the staff accounts are kept locally, is
\* unset or holds an array of staff entities at all times, and a login or a
\* logout leaves it as it is.
C30_StaffCollectionKept ==
  /\ [](localStaff.kind \in {"absent", "array"})
  /\ [][((\E s \in TypedStaffIds, p \in Passwords, ok \in BOOLEAN :
            Login(s, p, ok) \/ (p # Undefined /\ LoginAdmin(s, p, ok)))
         \/ \E ok \in BOOLEAN : Logout(ok))
        => localStaff' = localStaff]_vars

\* C24: once destroy has cleared the timer, neither a tick of the timer nor
\* an "online" or "offline" event of the browser starts a pass or changes
\* the service: its isOnline and isSyncing flags, the pass and the queue in
\* memory and in storage stay as they are.
C24_TeardownStopsTriggers ==
  [][(~syncInterval /\ (PeriodicSync \/ BrowserOnline \/ BrowserOffline))
     => UNCHANGED <<isOnline, isSyncing, pass, syncQueue, storedQueue>>]_vars

\* C23: every pass that starts ends: isSyncing, once true, is false again
\* later, whatever the remote calls of the pass do; and the step that ends a
\* pass leaves the queue without the synced and the dropped items, in memory
\* and under library-sync-queue alike.
C23_PassTerminates ==
  /\ isSyncing ~> ~isSyncing
  /\ [][(isSyncing /\ ~isSyncing')
        => /\ storedQueue' = syncQueue'
           /\ QueueIds(syncQueue') =
                QueueIds(syncQueue)
                  \ (pass'.successfulItems \cup pass'.failedItems)]_vars

\* A pass has ended in which an item threw, and the item is still queued.
C23_Witness ==
  /\ ~isSyncing
  /\ pass.items # <<>>
  /\ \E k \in 1..Len(pass.items) :
       /\ pass.items[k].id \notin pass.successfulItems
       /\ pass.items[k].id \in QueueIds(syncQueue)

\* The positions, in the running pass, of the creates already synced whose
\* entity carried the temporary identifier the given item names.
SyncedCreatesOf(item) ==
  {k \in 1..(pass.idx - 1) :
     /\ pass.items[k].type = "create"
     /\ pass.items[k].collection = item.collection
     /\ pass.items[k].localId = item.data.id
     /\ pass.items[k].id \in pass.successfulItems}

\* The remote entities a synced create made.
CreatedBy(create) ==
  {j \in 1..Len(remote[create.collection]) :
     WithoutId(remote[create.collection][j]) = create.data}

\* C25: when a pass comes to a queued update or delete that names an entity
\* by its temporary identifier, after the create of that entity has been
\* synced in the same pass and the remote store holds the entity it made, and
\* the remote store answers, the update or delete is applied to that remote
\* entity: it carries the updated fields, or it is gone.
C25_TempIdWritesReachRemote ==
  [][\A o \in SyncOutcomes :
       LET item == pass.items[pass.idx]
           c == item.collection
           made == UNION {CreatedBy(pass.items[k]) :
                            k \in SyncedCreatesOf(item)}
       IN (/\ SyncItem(o)
           /\ item.type \in {"update", "delete"}
           /\ IsLocal(item.data.id)
           /\ RemoteAnswers(o[1])
           /\ made # {})
          => \A j \in made :
               IF item.type = "delete"
               THEN ~HasId(remote'[c], remote[c][j].id)
               ELSE \E i \in 1..Len(remote'[c]) :
                      /\ remote'[c][i].id = remote[c][j].id
                      /\ \A f \in DOMAIN item.data \ {"id"} :
                           remote'[c][i][f] = item.data[f]]_vars

\* C26: an item enters the queue with retryCount 0 and only a failed attempt
\* raises the count, by one, so the count is the number of attempts made on
\* the item so far.  Every attempt is made on an item whose count is below
\* maxRetries, which makes it at most the maxRetries-th attempt; the count
\* never passes maxRetries; and whenever no pass is running every item of the
\* queue has a count below maxRetries.
C26_RetriesBounded ==
  /\ [](/\ \A i \in 1..Len(syncQueue) :
             syncQueue[i].retryCount \in 0..MaxRetries
        /\ ~isSyncing
             => \A i \in 1..Len(syncQueue) :
                  syncQueue[i].retryCount < MaxRetries)
  /\ [][\A o \in SyncOutcomes :
         SyncItem(o)
         => /\ pass.items[pass.idx].retryCount < MaxRetries
            /\ \A i \in 1..Len(syncQueue') :
                 \/ syncQueue'[i].retryCount = 0
                 \/ \E j \in 1..Len(syncQueue) :
                      /\ syncQueue[j].id = syncQueue'[i].id
                      /\ syncQueue'[i].retryCount - syncQueue[j].retryCount
                           = IF /\ syncQueue[j].id = pass.items[pass.idx].id
                                /\ syncQueue[j].id \notin pass'.successfulItems
                             THEN 1 ELSE 0]_vars
  /\ [][~(\E o \in SyncOutcomes : SyncItem(o))
        => \A i \in 1..Len(syncQueue') :
             \/ syncQueue'[i].retryCount = 0
                  /\ syncQueue'[i].id \notin QueueIds(syncQueue)
             \/ \E j \in 1..Len(syncQueue) : syncQueue[j] = syncQueue'[i]]_vars

\* A pass has ended and left in the queue an item that has failed
\* maxRetries - 1 times.
C26_Witness ==
  /\ ~isSyncing
  /\ pass.items # <<>>
  /\ \E i \in 1..Len(syncQueue) : syncQueue[i].retryCount = MaxRetries - 1

\* The positions of the queue whose item is not in the copy the running pass
\* works on: the items enqueued after the pass started.
Late ==
  {i \in 1..Len(syncQueue) :
     isSyncing /\ syncQueue[i].id \notin QueueIds(pass.items)}

\* Items are waiting and no pass is running.
Waiting == ~isSyncing /\ syncQueue # <<>>

\* C27: an item enqueued while a pass is running is not in the copy the pass
\* works on, so the pass does not attempt it, and it is, unchanged and with
\* retryCount 0, in the queue in memory and in storage when the pass ends.  A
\* later pass attempts it: when the service stays online a pass starts while
\* items are waiting, a pass that starts takes every item of the queue, and a
\* pass ends only after it has attempted every item it took.
C27_LateItemKept ==
  /\ [][\A i \in Late :
         /\ syncQueue[i].retryCount = 0
         /\ ~isSyncing'
              => /\ \E j \in 1..Len(syncQueue') : syncQueue'[j] = syncQueue[i]
                 /\ storedQueue' = syncQueue']_vars
  /\ [][(~isSyncing /\ isSyncing')
        => pass'.items = syncQueue' /\ pass'.idx = 1]_vars
  /\ [][(isSyncing /\ ~isSyncing') => pass'.idx = Len(pass'.items) + 1]_vars
  /\ <>[]isOnline => (Waiting ~> isSyncing)

\* A pass has ended that left in the queue an item enqueued while it ran.
C27_Witness ==
  /\ ~isSyncing
  /\ pass.items # <<>>
  /\ \E i \in 1..Len(syncQueue) :
       /\ syncQueue[i].id \notin QueueIds(pass.items)
       /\ syncQueue[i].retryCount = 0
       /\ storedQueue = syncQueue

\* C28: when a create of the write path resumes after its remote call, every
\* entity that local storage held in that collection right before is still
\* there with the same field values and the same identifier, the created
\* entity alone changing its temporary identifier for the server's: what
\* other calls and the pass wrote while the create was suspended is kept.
C28_ResumeKeepsLocalWrites ==
  [][\A ok \in BOOLEAN :
       EnhCreateResume(ok)
       => LET c == pending[1].c
          IN \A i \in 1..Len(local[c]) :
               \E j \in 1..Len(local'[c]) :
                 IF local[c][i].id = pending[1].localId
                 THEN WithoutId(local'[c][j]) = WithoutId(local[c][i])
                 ELSE local'[c][j] = local[c][i]]_vars

\* C29: a turn of the pass leaves every local collection with the entities
\* it had, in their places: none is added, none removed, and the identifier
\* of an entity stays as it is or goes from a temporary one to one the remote
\* store assigned; whether the remote store is configured or not and whether
\* its calls answer or throw.
C29_PassKeepsLocalEntities ==
  [][\A o \in SyncOutcomes :
       SyncItem(o)
       => \A c \in Collections :
            /\ Len(local'[c]) = Len(local[c])
            /\ \A i \in 1..Len(local[c]) :
                 \/ local'[c][i].id = local[c][i].id
                 \/ /\ IsLocal(local[c][i].id)
                    /\ ~IsLocal(local'[c][i].id)]_vars

====
